---- MODULE Spec2Model ----
(***************************************************************************)
(* Model of the file optimiser: the table detection / table transcoding    *)
(* code, TableConverter (tableConverter.js) and                            *)
(* FileExtractor.markTableSections (fileExtractor.js); the output writer,  *)
(* FileWriter (fileWriter.js); the verifier, FileVerifier.verifyFilePair   *)
(* and its scan and matching of the two folders (verify-files.js); the     *)
(* ProgressTracker (progressTracker.js); the runs of optimize mode         *)
(* (optimize-files.js); and the batch loop of FileSplitter.splitFile       *)
(* (verify-files.js).                                                      *)
(*                                                                         *)
(* A string is a sequence of characters; a character is a one-character    *)
(* TLA+ string.  Markup tags ("<tr>", "</td>", ...) and the two sentinel   *)
(* words "[TABLE START]" / "[TABLE END]" are kept as single elements of    *)
(* such a sequence: no input of the model contains '<', '>', '[' or ']'.   *)
(***************************************************************************)
EXTENDS Integers, Sequences, FiniteSets, TLC

VARIABLES
    pc,             \* "input" before the operation under study ran, then its name
    line,           \* SpecLine: one raw line of text
    lineClass,      \* SpecLine: how the two detectors classify `line`
    text,           \* SpecText: the input text (a string with "\n" separators)
    tablePatterns,  \* SpecText: value returned by detectTextTables(text)
    marked,         \* SpecText: the `result` array of markTableSections(text)
    tableHtml,      \* SpecTable: the markup of one HTML table
    tableRows,      \* SpecTable: value of parseTableRows(tableHtml)
    hasHeader,      \* SpecTable: value of detectHeader(rows)
    listText,       \* SpecTable: value returned by convertTableToList(tableHtml)
    docHtml,        \* SpecAllTables: the HTML of a document
    rewritten,      \* SpecAllTables: value returned by convertAllTables(docHtml)
    inlineText,     \* SpecInline: the text of one block
    inlineRuns,     \* SpecInline: value returned by parseInlineFormatting(inlineText)
    markup,         \* SpecBlock, SpecMarkup, SpecRoundTrip: the markdown content
    summary,        \* SpecMarkup, SpecRoundTrip: the summary saved with the content
    wordParagraphs, \* SpecBlock, SpecMarkup: value returned by markdownToWordParagraphs(markup)
    written,        \* SpecMarkup, SpecRoundTrip: the content saveAsText / saveAsMarkdown wrote
    cleaned,        \* SpecRoundTrip: value returned by cleanOptimizedContent(written)
    exportFormat,   \* SpecSave, SpecVerify: the exportFormat of the FileWriter
    originalFilePath, \* SpecSave: the original document
    topics,         \* SpecSave: the topics of a split
    disk,           \* SpecSave, SpecVerify: the files of the output folder, by path
    outcome,        \* SpecSave, SpecVerify: what the operation returned or threw
    pair,           \* SpecVerify: the match under verification
    attemptCount,   \* SpecVerify: attemptCount of verifyFilePair
    readBack,       \* SpecVerify: the file contents the last attempt read
    lastSaved,      \* SpecVerify: the path and content reOptimizeFile last saved
    validation,     \* SpecVerify, SpecOptimize: the result of the last validateAccuracy call
    progress,       \* SpecTracker, SpecOptimize: the progress of the ProgressTracker
    clock,          \* SpecTracker, SpecOptimize: the time, in calls of new Date()
    rawTree,        \* SpecMatch: the entries of the raw folder, as readdir lists them
    optimizedTree,  \* SpecMatch: the entries of the optimized folder
    rawFiles,       \* SpecMatch: value returned by scanRawFilesRecursive
    optimizedItems, \* SpecMatch: value returned by scanOptimizedFilesRecursive
    matches,        \* SpecMatch: value returned by matchFiles
    runCount,       \* SpecOptimize: how many times processFiles was started
    allFiles,       \* SpecOptimize: value returned by scanDirectory
    loaded,         \* SpecOptimize: the progress load() found when the run started
    menuAction,     \* SpecOptimize: the last answer to promptResumeOrReset
    filesToProcess, \* SpecOptimize: filesToProcess of processFiles
    fileIndex,      \* SpecOptimize: i of the for loop of processFiles
    invoked,        \* SpecOptimize: the files processFile was called with in this run
    candidate,      \* SpecOptimize: optimizedContent of processFile, <<>> for null
    customPrompt,   \* SpecOptimize: customPrompt of processFile
    calls,          \* SpecOptimize: the optimizeContent calls made for the file
    shown,          \* SpecOptimize: what displayComparison last showed for the file
    concurrentTopicOptimizations, \* SpecSplit: the field of the FileSplitter
    topicIndex,     \* SpecSplit: i of the batch loop of splitFile
    batchPromises,  \* SpecSplit: batchPromises of splitFile, each promise by its topic number
    optimizedContents, \* SpecSplit: optimizedContents of splitFile
    inFlight,       \* SpecSplit: the optimizeContent calls started and not yet settled
    settled         \* SpecSplit: the calls made for the file, in the order they settled

vars == <<pc, line, lineClass, text, tablePatterns, marked,
          tableHtml, tableRows, hasHeader, listText, docHtml, rewritten,
          inlineText, inlineRuns, markup, summary, wordParagraphs, written, cleaned,
          exportFormat, originalFilePath, topics, disk, outcome,
          pair, attemptCount, readBack, lastSaved, validation, progress, clock,
          rawTree, optimizedTree, rawFiles, optimizedItems, matches,
          runCount, allFiles, loaded, menuAction, filesToProcess, fileIndex, invoked,
          candidate, customPrompt, calls, shown,
          concurrentTopicOptimizations, topicIndex, batchPromises, optimizedContents, inFlight,
          settled>>

\* the variables of the table detection and of the transcoding of one table
tableVars == <<line, lineClass, text, tablePatterns, marked,
               tableHtml, tableRows, hasHeader, listText>>

\* the variables of the specifications of whole documents
docVars == <<docHtml, rewritten, inlineText, inlineRuns, markup, summary, wordParagraphs,
             written, cleaned, exportFormat, originalFilePath, topics, disk, outcome,
             pair, attemptCount, readBack, lastSaved>>

\* the variables of the specifications of the file writer
writerVars == <<inlineText, inlineRuns, markup, summary, wordParagraphs, written, cleaned>>

\* the variables of the specifications that save files
saveVars == <<exportFormat, originalFilePath, topics, disk, outcome,
              pair, attemptCount, readBack, lastSaved>>

\* the variables of the specifications of a run over the input folder
trackerVars == <<progress, clock>>
matchVars == <<rawTree, optimizedTree, rawFiles, optimizedItems, matches>>
optimizeVars == <<runCount, allFiles, loaded, menuAction, filesToProcess, fileIndex, invoked,
                  candidate, customPrompt, calls, shown>>
splitVars == <<concurrentTopicOptimizations, topicIndex, batchPromises, optimizedContents,
               inFlight, settled>>
batchVars == <<trackerVars, matchVars, optimizeVars, splitVars>>

\* the variables the specifications of one operation of the writer leave alone
runVars == <<validation, batchVars>>

----------------------------------------------------------------------------
(* Bounds of the model *)

MaxLineLen == 9     \* longest line drawn in SpecLine
MaxLines == 5       \* most lines of a text drawn in SpecText
MaxRows == 3        \* most <tr> elements of a table drawn in SpecTable
MaxCols == 2        \* most cells of a row drawn in SpecTable
MaxCells == 4       \* most cells, all rows together, of a table drawn in SpecTable
MaxListRows == 2    \* most <tr> elements of a table drawn in SpecRelist
MaxListCols == 3    \* most cells of a row drawn in SpecRelist

----------------------------------------------------------------------------
(* JavaScript string primitives used by the code *)

\* characters matched by the regex class \s that occur in the model
WhiteSpace == {" ", "\t", "\n"}

IsSpace(c) == c \in WhiteSpace

RECURSIVE TrimStart(_)
TrimStart(s) ==
    IF s # <<>> /\ IsSpace(Head(s)) THEN TrimStart(Tail(s)) ELSE s

RECURSIVE TrimEnd(_)
TrimEnd(s) ==
    IF s # <<>> /\ IsSpace(s[Len(s)]) THEN TrimEnd(SubSeq(s, 1, Len(s) - 1)) ELSE s

\* String.prototype.trim
Trim(s) == TrimEnd(TrimStart(s))

\* (s.match(/c/g) || []).length
CountChar(s, c) == Cardinality({i \in 1..Len(s) : s[i] = c})

\* length of the run of characters of S in s that starts at position i
RECURSIVE RunLen(_, _, _)
RunLen(s, i, S) ==
    IF i <= Len(s) /\ s[i] \in S THEN 1 + RunLen(s, i + 1, S) ELSE 0

\* the positions of s that satisfy Test, in increasing order
Positions(s, Test(_)) == SelectSeq([i \in 1..Len(s) |-> i], Test)

\* s.split(/X{3,}/) for a character class X = S: the regex is greedy, so each
\* maximal run of 3 or more characters of S is one separator, and the fields
\* are the pieces of s between the separators (empty where s starts or ends
\* with a separator).
SplitRuns3(s, S) ==
    LET SepStart(i) ==
            /\ i + 2 <= Len(s)
            /\ s[i] \in S /\ s[i + 1] \in S /\ s[i + 2] \in S
            /\ (i = 1 \/ s[i - 1] \notin S)
        seps == Positions(s, SepStart)
        FieldStart(k) == IF k = 1 THEN 1 ELSE seps[k - 1] + RunLen(s, seps[k - 1], S)
        FieldEnd(k) == IF k = Len(seps) + 1 THEN Len(s) ELSE seps[k] - 1
    IN [k \in 1..(Len(seps) + 1) |-> SubSeq(s, FieldStart(k), FieldEnd(k))]

\* s.split(/\s{3,}/)
SplitWs3(s) == SplitRuns3(s, WhiteSpace)

\* /\s{3,}/.test(s)
TestWs3(s) ==
    \E i \in 1..(Len(s) - 2) : IsSpace(s[i]) /\ IsSpace(s[i + 1]) /\ IsSpace(s[i + 2])

\* s.split('\n')
SplitLines(s) ==
    LET IsNewline(i) == s[i] = "\n"
        nls == Positions(s, IsNewline)
        LineStart(k) == IF k = 1 THEN 1 ELSE nls[k - 1] + 1
        LineEnd(k) == IF k = Len(nls) + 1 THEN Len(s) ELSE nls[k] - 1
    IN [k \in 1..(Len(nls) + 1) |-> SubSeq(s, LineStart(k), LineEnd(k))]

\* Array.prototype.join(sep)
RECURSIVE Join(_, _)
Join(arr, sep) ==
    IF arr = <<>> THEN <<>>
    ELSE IF Len(arr) = 1 THEN arr[1]
    ELSE arr[1] \o sep \o Join(Tail(arr), sep)

\* all sequences over S of length 0..n
SeqsUpTo(S, n) == UNION {[1..k -> S] : k \in 0..n}

----------------------------------------------------------------------------
(* The tabular-line heuristics *)

\* hasMultipleTabs || hasPipes || hasConsistentSpacing, for the string l the
\* heuristics are evaluated on
TableLike(l) ==
    LET hasMultipleTabs == CountChar(l, "\t") >= 2
        hasPipes == CountChar(l, "|") >= 2
        hasConsistentSpacing == TestWs3(l) /\ Len(SplitWs3(l)) >= 3
    IN hasMultipleTabs \/ hasPipes \/ hasConsistentSpacing

\* detectTextTables evaluates the heuristics on the trimmed line
DetectLineIsTabular(rawLine) == TableLike(Trim(rawLine))

\* markTableSections evaluates them on the line as it is
MarkLineIsTabular(rawLine) == TableLike(rawLine)

----------------------------------------------------------------------------
(* TableConverter.detectTextTables *)

\* CloseTable with the threshold off by one: a single line is recorded
CloseTableSingle(tablePats, currentTable, i) ==
    IF Len(currentTable) >= 1
    THEN Append(tablePats, [startLine |-> i - Len(currentTable),
                            endLine |-> i - 1,
                            content |-> Join(currentTable, <<"\n">>)])
    ELSE tablePats

\* "Table ended": the candidate is recorded when it holds 2 lines or more
CloseTable(tablePats, currentTable, i) ==
    IF Len(currentTable) >= 2
    THEN Append(tablePats, [startLine |-> i - Len(currentTable),
                            endLine |-> i - 1,
                            content |-> Join(currentTable, <<"\n">>)])
    ELSE tablePats

\* "Check if we ended while in a table"
FlushTable(tablePats, inTable, currentTable, lines) ==
    IF inTable /\ Len(currentTable) >= 2
    THEN Append(tablePats, [startLine |-> Len(lines) - Len(currentTable),
                            endLine |-> Len(lines) - 1,
                            content |-> Join(currentTable, <<"\n">>)])
    ELSE tablePats

\* the for loop, from index i (zero-based) on
RECURSIVE DetectLoop(_, _, _, _, _)
DetectLoop(lines, i, inTable, currentTable, tablePats) ==
    IF i >= Len(lines) THEN FlushTable(tablePats, inTable, currentTable, lines)
    ELSE LET l == Trim(lines[i + 1]) IN
         IF TableLike(l)
         THEN DetectLoop(lines, i + 1, TRUE,
                         Append(IF inTable THEN currentTable ELSE <<>>, l), tablePats)
         ELSE IF inTable /\ Len(l) = 0
         THEN DetectLoop(lines, i + 1, inTable, currentTable, tablePats)
         ELSE IF inTable
         THEN DetectLoop(lines, i + 1, FALSE, <<>>, CloseTable(tablePats, currentTable, i))
         ELSE DetectLoop(lines, i + 1, inTable, currentTable, tablePats)

detectTextTables(t) == DetectLoop(SplitLines(t), 0, FALSE, <<>>, <<>>)

----------------------------------------------------------------------------
(* FileExtractor.markTableSections *)

\* the two sentinel elements pushed on `result`
TABLE_START == <<"\n", "[TABLE START]">>
TABLE_END == <<"[TABLE END]", "\n">>

\* "Table ended": the accumulated lines go back to the result, closed by the
\* end sentinel when they are 2 or more
EndTable(result, tableLines) ==
    IF Len(tableLines) >= 2
    THEN (result \o tableLines) \o <<TABLE_END>>
    ELSE result \o tableLines

\* "Handle if we ended while in a table"
EndOfInput(result, inTable, tableLines) ==
    IF inTable /\ Len(tableLines) >= 2
    THEN (result \o tableLines) \o <<TABLE_END>>
    ELSE result

\* the for loop, from index i (zero-based) on; yields the `result` array
RECURSIVE MarkLoop(_, _, _, _, _)
MarkLoop(lines, i, inTable, tableLines, result) ==
    IF i >= Len(lines) THEN EndOfInput(result, inTable, tableLines)
    ELSE LET l == lines[i + 1]
             trimmed == Trim(l)
         IN
         IF TableLike(l)
         THEN MarkLoop(lines, i + 1, TRUE,
                       Append(IF inTable THEN tableLines ELSE <<>>, l),
                       IF inTable THEN result ELSE Append(result, TABLE_START))
         ELSE IF inTable /\ Len(trimmed) = 0
         THEN MarkLoop(lines, i + 1, inTable, Append(tableLines, l), result)
         ELSE IF inTable
         THEN MarkLoop(lines, i + 1, FALSE, <<>>, Append(EndTable(result, tableLines), l))
         ELSE MarkLoop(lines, i + 1, inTable, tableLines, Append(result, l))

\* the `result` array before the final join
markTableSectionsResult(t) == MarkLoop(SplitLines(t), 0, FALSE, <<>>, <<>>)

\* the returned string
markTableSections(t) == Join(markTableSectionsResult(t), <<"\n">>)

----------------------------------------------------------------------------
(* TableConverter: parsing of an HTML table *)

\* the markup elements of the model, by the regex that recognises them
BrTags == {"<br>", "<br/>"}                \* /<br\s*\/?>/
RowOpenTags == {"<tr>"}                    \* /<tr[^>]*>/
RowCloseTags == {"</tr>"}                  \* /<\/tr>/
CellOpenTags == {"<td>", "<th>"}           \* /<t[hd][^>]*>/
CellCloseTags == {"</td>", "</th>"}        \* /<\/t[hd]>/
AllTags == BrTags \cup RowOpenTags \cup RowCloseTags \cup CellOpenTags \cup CellCloseTags
               \cup {"<table>", "</table>", "<b>", "</b>"}      \* /<[^>]+>/

\* position of the first element of s at or after pos that is in S, 0 if none
FirstIn(s, pos, S) ==
    IF \E i \in pos..Len(s) : s[i] \in S
    THEN CHOOSE i \in pos..Len(s) : s[i] \in S /\ \A j \in pos..(i - 1) : s[j] \notin S
    ELSE 0

\* s.replace(/x/g, c) for the one-element patterns x of S and a character c
ReplaceAll(s, S, c) == [i \in 1..Len(s) |-> IF s[i] \in S THEN c ELSE s[i]]

\* s.replace(/x/g, '') for the one-element patterns x of S
RemoveAll(s, S) == LET Kept(e) == e \notin S IN SelectSeq(s, Kept)

\* s.replace(/\s+/g, ' '): the first character of a whitespace run becomes a
\* space, the others go
CollapseSpaces(s) ==
    LET squeezed == [i \in 1..Len(s) |->
                        IF ~IsSpace(s[i]) THEN s[i]
                        ELSE IF i > 1 /\ IsSpace(s[i - 1]) THEN "" ELSE " "]
    IN RemoveAll(squeezed, {""})

stripHtmlTags(html) ==
    LET s1 == ReplaceAll(html, BrTags, " ")
        s2 == RemoveAll(s1, AllTags)
        s3 == ReplaceAll(s2, {"&nbsp;"}, " ")
        s4 == ReplaceAll(s3, {"&lt;"}, "<")
        s5 == ReplaceAll(s4, {"&gt;"}, ">")
        s6 == ReplaceAll(s5, {"&amp;"}, "&")
    IN Trim(CollapseSpaces(s6))

\* the while loop of parseTableCells, the regex resuming at pos
RECURSIVE ParseCellsFrom(_, _, _)
ParseCellsFrom(rowHtml, pos, cells) ==
    LET open == FirstIn(rowHtml, pos, CellOpenTags)
        close == IF open = 0 THEN 0 ELSE FirstIn(rowHtml, open + 1, CellCloseTags)
    IN IF close = 0 THEN cells
       ELSE ParseCellsFrom(rowHtml, close + 1,
                Append(cells, Trim(stripHtmlTags(SubSeq(rowHtml, open + 1, close - 1)))))

parseTableCells(rowHtml) == ParseCellsFrom(rowHtml, 1, <<>>)

\* a parsed row is kept when it has a cell
KeepRow(rows, cells) == IF Len(cells) > 0 THEN Append(rows, cells) ELSE rows

\* the while loop of parseTableRows, the regex resuming at pos
RECURSIVE ParseRowsFrom(_, _, _)
ParseRowsFrom(html, pos, rows) ==
    LET open == FirstIn(html, pos, RowOpenTags)
        close == IF open = 0 THEN 0 ELSE FirstIn(html, open + 1, RowCloseTags)
    IN IF close = 0 THEN rows
       ELSE ParseRowsFrom(html, close + 1,
                KeepRow(rows, parseTableCells(SubSeq(html, open + 1, close - 1))))

parseTableRows(html) == ParseRowsFrom(html, 1, <<>>)

----------------------------------------------------------------------------
(* TableConverter: header inference and rendering *)

\* row.reduce((sum, cell) => sum + cell.length, 0)
RECURSIVE SumLen(_)
SumLen(row) == IF row = <<>> THEN 0 ELSE Len(Head(row)) + SumLen(Tail(row))

\* ShorterFirstRow with a factor of 0.5 in place of 0.7
ShorterFirstRowHalf(firstRow, secondRow) ==
    10 * SumLen(firstRow) * Len(secondRow) < 5 * SumLen(secondRow) * Len(firstRow)

\* firstRowAvgLength < secondRowAvgLength * 0.7, the two averages being
\* SumLen / Len: both sides multiplied by 10 * Len(firstRow) * Len(secondRow).
\* With a row of no cell the quotient is NaN in the code and the test false;
\* here both sides are 0.
ShorterFirstRow(firstRow, secondRow) ==
    10 * SumLen(firstRow) * Len(secondRow) < 7 * SumLen(secondRow) * Len(firstRow)

\* cell.length < 50 && !cell.match(/[.!?]$/)
LooksLikeHeaderCell(cell) ==
    Len(cell) < 50 /\ ~(cell # <<>> /\ cell[Len(cell)] \in {".", "!", "?"})

detectHeader(rows) ==
    IF Len(rows) = 0 THEN FALSE
    ELSE IF Len(rows) > 1 /\ ShorterFirstRow(rows[1], rows[2]) THEN TRUE
    ELSE \A c \in 1..Len(rows[1]) : LooksLikeHeaderCell(rows[1][c])

NonBlank(str) == Trim(str) # <<>>

DataTableTitle == <<"D", "a", "t", "a", " ", "T", "a", "b", "l", "e">>

getTableTitle(headerRow) ==
    LET title == Join(SelectSeq(headerRow, NonBlank), <<",", " ">>)
    IN IF Len(title) > 50 THEN DataTableTitle ELSE title

\* decimal digits of a number, as template literals print it
Digits == <<"0", "1", "2", "3", "4", "5", "6", "7", "8", "9">>

RECURSIVE NumStr(_)
NumStr(n) == IF n < 10 THEN <<Digits[n + 1]>> ELSE NumStr(n \div 10) \o <<Digits[(n % 10) + 1]>>

\* CellLabel with the fallback numbered from 0
CellLabelFromZero(headerRow, cellIndex) ==
    IF cellIndex < Len(headerRow) /\ headerRow[cellIndex + 1] # <<>>
    THEN headerRow[cellIndex + 1]
    ELSE <<"C", "o", "l", "u", "m", "n", " ">> \o NumStr(cellIndex)

\* headerRow[cellIndex] || `Column ${cellIndex + 1}` (cellIndex is zero-based):
\* an index past the header row gives undefined, and '' is falsy too
CellLabel(headerRow, cellIndex) ==
    IF cellIndex < Len(headerRow) /\ headerRow[cellIndex + 1] # <<>>
    THEN headerRow[cellIndex + 1]
    ELSE <<"C", "o", "l", "u", "m", "n", " ">> \o NumStr(cellIndex + 1)

\* the items of one data row
RowItems(headerRow, hasHdr, row) ==
    IF hasHdr
    THEN SelectSeq([c \in 1..Len(row) |-> (CellLabel(headerRow, c - 1) \o <<":", " ">>) \o row[c]],
                   NonBlank)
    ELSE SelectSeq(row, NonBlank)

\* `${index + 1}. ${items.join(' | ')}` (index is zero-based)
ListItem(index, items) ==
    (NumStr(index + 1) \o <<".", " ">>) \o Join(items, <<" ", "|", " ">>)

\* dataRows.forEach from index on: the items pushed on `result`
RECURSIVE PushRows(_, _, _, _, _)
PushRows(headerRow, hasHdr, dataRows, index, result) ==
    IF index >= Len(dataRows) THEN result
    ELSE LET items == RowItems(headerRow, hasHdr, dataRows[index + 1]) IN
         PushRows(headerRow, hasHdr, dataRows, index + 1,
                  IF Len(items) > 0 THEN Append(result, ListItem(index, items)) ELSE result)

TitleLine(headerRow) ==
    (<<"*", "*", "T", "a", "b", "l", "e", ":", " ">> \o getTableTitle(headerRow))
        \o <<"*", "*", "\n">>

\* convertTableToList from the parsed rows on
ListOfRows(rs) ==
    IF Len(rs) = 0 THEN <<>>
    ELSE LET hasHdr == detectHeader(rs)
             headerRow == IF hasHdr THEN rs[1] ELSE <<>>
             dataRows == IF hasHdr THEN Tail(rs) ELSE rs
             result == PushRows(headerRow, hasHdr, dataRows, 0,
                                IF hasHdr THEN <<TitleLine(headerRow)>> ELSE <<>>)
         IN Join(result, <<"\n">>) \o <<"\n">>

convertTableToList(html) == ListOfRows(parseTableRows(html))

----------------------------------------------------------------------------
(* TableConverter.convertAllTables *)

TableOpenTags == {"<table>"}               \* /<table[^>]*>/
TableCloseTags == {"</table>"}             \* /<\/table>/

\* the while loop collecting the matches of tableRegex, the regex resuming at pos
RECURSIVE TableMatchesFrom(_, _, _)
TableMatchesFrom(html, pos, tables) ==
    LET open == FirstIn(html, pos, TableOpenTags)
        close == IF open = 0 THEN 0 ELSE FirstIn(html, open + 1, TableCloseTags)
    IN IF close = 0 THEN tables
       ELSE TableMatchesFrom(html, close + 1,
                Append(tables, [fullMatch |-> SubSeq(html, open, close),
                                content |-> SubSeq(html, open + 1, close - 1)]))

\* the character ` (a grave accent), which a string of the model cannot hold
BackTick == "(backtick)"

\* position of the first occurrence of pattern in s, 0 if none
IndexOf(s, pattern) ==
    LET At(i) == SubSeq(s, i, i + Len(pattern) - 1) = pattern
        starts == 1..(Len(s) - Len(pattern) + 1)
    IN IF \E i \in starts : At(i)
       THEN CHOOSE i \in starts : At(i) /\ \A j \in 1..(i - 1) : ~At(j)
       ELSE 0

\* what String.prototype.replace makes of a replacement string when the
\* pattern is a string: $$ is a dollar, $& the matched text, $` the text before
\* the match, $' the text after it; any other character stands for itself
RECURSIVE GetSubstitution(_, _, _, _, _)
GetSubstitution(replacement, i, matched, before, after) ==
    IF i > Len(replacement) THEN <<>>
    ELSE IF replacement[i] = "$" /\ i < Len(replacement)
               /\ replacement[i + 1] \in {"$", "&", BackTick, "'"}
         THEN (CASE replacement[i + 1] = "$" -> <<"$">>
                 [] replacement[i + 1] = "&" -> matched
                 [] replacement[i + 1] = BackTick -> before
                 [] replacement[i + 1] = "'" -> after)
              \o GetSubstitution(replacement, i + 2, matched, before, after)
         ELSE <<replacement[i]>> \o GetSubstitution(replacement, i + 1, matched, before, after)

\* result.replace(pattern, replacement) for a string pattern: the first
\* occurrence only
ReplaceFirst(result, pattern, replacement) ==
    LET at == IndexOf(result, pattern)
        before == SubSeq(result, 1, at - 1)
        after == SubSeq(result, at + Len(pattern), Len(result))
    IN IF at = 0 THEN result
       ELSE (before \o GetSubstitution(replacement, 1, pattern, before, after)) \o after

\* tables.forEach from the k-th table on
RECURSIVE ReplaceTables(_, _, _)
ReplaceTables(result, tables, k) ==
    IF k > Len(tables) THEN result
    ELSE ReplaceTables(ReplaceFirst(result, tables[k].fullMatch,
                                    convertTableToList(tables[k].fullMatch)),
                       tables, k + 1)

convertAllTables(html) == ReplaceTables(html, TableMatchesFrom(html, 1, <<>>), 1)

----------------------------------------------------------------------------
(* FileWriter: the markdown parser (markdownToWordParagraphs) *)

\* a string literal of the code, as a sequence of characters
Chars(n, c) == [i \in 1..n |-> c]

\* s.startsWith(prefix) and s.substring(n)
StartsWith(s, prefix) == Len(s) >= Len(prefix) /\ SubSeq(s, 1, Len(prefix)) = prefix
Substring(s, n) == SubSeq(s, n + 1, Len(s))

\* the characters the regex atom . does not match
LineTerminators == {"\n", "\r"}
Dot(c) == c \notin LineTerminators

DigitChars == {"0", "1", "2", "3", "4", "5", "6", "7", "8", "9"}     \* regex class \d

\* new TextRun({ text, bold, italics }); a run made without bold and italics
\* is neither
TextRun(str, bold, italics) == [text |-> str, bold |-> bold, italics |-> italics]

\* text.replace(/`([^`]+)`/g, '$1') from pos on: a backtick, one or more
\* characters that are not backticks, a backtick
RECURSIVE StripCodeSpans(_, _)
StripCodeSpans(str, pos) ==
    LET open == FirstIn(str, pos, {BackTick})
        close == IF open = 0 THEN 0 ELSE FirstIn(str, open + 1, {BackTick})
    IN IF close = 0 THEN SubSeq(str, pos, Len(str))
       ELSE IF close = open + 1 THEN SubSeq(str, pos, open) \o StripCodeSpans(str, open + 1)
       ELSE (SubSeq(str, pos, open - 1) \o SubSeq(str, open + 1, close - 1))
                \o StripCodeSpans(str, close + 1)

\* n characters d stand at position i of str
DelimAt(str, i, n, d) == i + n - 1 <= Len(str) /\ \A k \in 0..(n - 1) : str[i + k] = d

\* the regex d{n}(.+?)d{n} tried at position i: the length of the shortest
\* capture, 0 when the regex does not match there
CaptureLen(str, i, n, d) ==
    LET Closes(k) == /\ \A j \in 0..(k - 1) : Dot(str[i + n + j])
                     /\ DelimAt(str, i + n + k, n, d)
        lens == 1..(Len(str) - i - 2 * n + 1)
    IN IF DelimAt(str, i, n, d) /\ \E k \in lens : Closes(k)
       THEN CHOOSE k \in lens : Closes(k) /\ \A j \in 1..(k - 1) : ~Closes(j)
       ELSE 0

\* formatRegex with its alternatives in the opposite order
FormatMatchAtShortestFirst(str, i) ==
    IF CaptureLen(str, i, 1, "*") > 0 THEN [stars |-> 1, len |-> CaptureLen(str, i, 1, "*")]
    ELSE IF CaptureLen(str, i, 2, "*") > 0 THEN [stars |-> 2, len |-> CaptureLen(str, i, 2, "*")]
    ELSE IF CaptureLen(str, i, 3, "*") > 0 THEN [stars |-> 3, len |-> CaptureLen(str, i, 3, "*")]
    ELSE [stars |-> 0, len |-> 0]

\* formatRegex tried at position i: the alternatives in their order.  The
\* result is the number of asterisks of the alternative that matched (0 when
\* none did) and the length of its capture
FormatMatchAt(str, i) ==
    IF CaptureLen(str, i, 3, "*") > 0 THEN [stars |-> 3, len |-> CaptureLen(str, i, 3, "*")]
    ELSE IF CaptureLen(str, i, 2, "*") > 0 THEN [stars |-> 2, len |-> CaptureLen(str, i, 2, "*")]
    ELSE IF CaptureLen(str, i, 1, "*") > 0 THEN [stars |-> 1, len |-> CaptureLen(str, i, 1, "*")]
    ELSE [stars |-> 0, len |-> 0]

\* formatRegex.exec(text) with the regex resuming at lastIndex: the position of
\* the leftmost match, 0 if none
FormatExec(str, lastIndex) ==
    LET Matches(i) == FormatMatchAt(str, i).stars > 0
        starts == (lastIndex + 1)..Len(str)
    IN IF \E i \in starts : Matches(i)
       THEN CHOOSE i \in starts : Matches(i) /\ \A j \in (lastIndex + 1)..(i - 1) : ~Matches(j)
       ELSE 0

\* the segment pushed for a match at position at
FormatSegment(str, at) ==
    LET m == FormatMatchAt(str, at)
    IN TextRun(SubSeq(str, at + m.stars, at + m.stars + m.len - 1), m.stars >= 2, m.stars # 2)

\* the while loop of parseInlineFormatting and the push after it; lastIndex
\* counts the characters before the cursor
RECURSIVE FormatLoop(_, _, _)
FormatLoop(str, lastIndex, segments) ==
    LET at == FormatExec(str, lastIndex)
        m == FormatMatchAt(str, at)
        before == IF at - 1 > lastIndex
                  THEN <<TextRun(SubSeq(str, lastIndex + 1, at - 1), FALSE, FALSE)>>
                  ELSE <<>>
    IN IF at = 0
       THEN IF lastIndex < Len(str)
            THEN Append(segments, TextRun(SubSeq(str, lastIndex + 1, Len(str)), FALSE, FALSE))
            ELSE segments
       ELSE FormatLoop(str, at - 1 + 2 * m.stars + m.len,
                       (segments \o before) \o <<FormatSegment(str, at)>>)

NonEmptyText(segment) == segment.text # <<>>

parseInlineFormatting(str) ==
    LET stripped == StripCodeSpans(str, 1)
        hasFormatting == FormatExec(stripped, 0) # 0
        runs == SelectSeq(FormatLoop(stripped, 0, <<>>), NonEmptyText)
    IN IF ~hasFormatting THEN <<TextRun(stripped, FALSE, FALSE)>>
       ELSE IF Len(runs) > 0 THEN runs
       ELSE <<TextRun(stripped, FALSE, FALSE)>>

\* the paragraph text of a horizontal rule (a row of box-drawing characters),
\* kept as one element
RuleText == <<"(rule)">>

\* new Paragraph({...}): what kind of paragraph the options make, the heading
\* level (0 without one) and the runs or text it is given
Paragraph(kind, level, children) == [kind |-> kind, heading |-> level, children |-> children]

\* line.startsWith('# '), ..., line.startsWith('###### ')
HeadingPrefix(n) == Chars(n, "#") \o <<" ">>

\* the rule regex with {2,} for {3,}
RuleOfTwo(l) == \E c \in {"-", "*", "_"} : Len(l) >= 2 /\ \A i \in 1..Len(l) : l[i] = c

\* line.match(/^(\-{3,}|\*{3,}|_{3,})$/)
IsRule(l) == \E c \in {"-", "*", "_"} : Len(l) >= 3 /\ \A i \in 1..Len(l) : l[i] = c

\* line.match(/^\d+\.\s/): the length of the match, 0 when there is none
NumberPrefixLen(l) ==
    LET digits == RunLen(l, 1, DigitChars)
    IN IF digits >= 1 /\ Len(l) >= digits + 2 /\ l[digits + 1] = "." /\ IsSpace(l[digits + 2])
       THEN digits + 2
       ELSE 0

\* the body of the for loop of markdownToWordParagraphs: the paragraph pushed
\* for one line
ParagraphOf(l) ==
    IF Trim(l) = <<>> THEN Paragraph("empty", 0, <<>>)
    ELSE IF StartsWith(l, HeadingPrefix(6)) THEN Paragraph("heading", 6, parseInlineFormatting(Substring(l, 7)))
    ELSE IF StartsWith(l, HeadingPrefix(5)) THEN Paragraph("heading", 5, parseInlineFormatting(Substring(l, 6)))
    ELSE IF StartsWith(l, HeadingPrefix(4)) THEN Paragraph("heading", 4, parseInlineFormatting(Substring(l, 5)))
    ELSE IF StartsWith(l, HeadingPrefix(3)) THEN Paragraph("heading", 3, parseInlineFormatting(Substring(l, 4)))
    ELSE IF StartsWith(l, HeadingPrefix(2)) THEN Paragraph("heading", 2, parseInlineFormatting(Substring(l, 3)))
    ELSE IF StartsWith(l, HeadingPrefix(1)) THEN Paragraph("heading", 1, parseInlineFormatting(Substring(l, 2)))
    ELSE IF IsRule(l) THEN Paragraph("rule", 0, RuleText)
    ELSE IF StartsWith(l, <<">", " ">>) THEN Paragraph("quote", 0, parseInlineFormatting(Substring(l, 2)))
    ELSE IF StartsWith(l, <<"-", " ">>) \/ StartsWith(l, <<"*", " ">>)
         THEN Paragraph("bullet", 0, parseInlineFormatting(Substring(l, 2)))
    ELSE IF NumberPrefixLen(l) > 0
         THEN Paragraph("numbering", 0, parseInlineFormatting(Substring(l, NumberPrefixLen(l))))
    ELSE Paragraph("paragraph", 0, parseInlineFormatting(l))

\* the for loop with the empty lines skipped
RECURSIVE ParagraphLoopSkippingEmpty(_, _, _)
ParagraphLoopSkippingEmpty(lines, i, paragraphs) ==
    IF i >= Len(lines) THEN paragraphs
    ELSE ParagraphLoopSkippingEmpty(lines, i + 1,
             IF Trim(lines[i + 1]) = <<>> THEN paragraphs
             ELSE Append(paragraphs, ParagraphOf(lines[i + 1])))

\* the for loop of markdownToWordParagraphs from line i (zero-based) on
RECURSIVE ParagraphLoop(_, _, _)
ParagraphLoop(lines, i, paragraphs) ==
    IF i >= Len(lines) THEN paragraphs
    ELSE ParagraphLoop(lines, i + 1, Append(paragraphs, ParagraphOf(lines[i + 1])))

markdownToWordParagraphs(markdown) == ParagraphLoop(SplitLines(markdown), 0, <<>>)

----------------------------------------------------------------------------
(* FileWriter: saveAsText, saveAsMarkdown *)

\* ^ of a regex with the m flag matches at position i
LineStartAt(s, i) == i = 1 \/ s[i - 1] \in LineTerminators

\* the last position of the line that position i is in
LineEndFrom(s, i) ==
    LET eol == FirstIn(s, i, LineTerminators) IN IF eol = 0 THEN Len(s) ELSE eol - 1

\* /^#{1,6}\s+(.+)$/m tried at position i: where the capture starts, 0 when
\* the regex does not match there.  \s+ is greedy and spans line ends; it gives
\* characters back until a character of the same line is left for (.+)
HeaderCaptureStart(s, i) ==
    LET hashes == RunLen(s, i, {"#"})
        spaces == RunLen(s, i + hashes, WhiteSpace)
        Leaves(j) == i + hashes + j <= Len(s) /\ Dot(s[i + hashes + j])
    IN IF LineStartAt(s, i) /\ hashes \in 1..6 /\ \E j \in 1..spaces : Leaves(j)
       THEN i + hashes + CHOOSE j \in 1..spaces : Leaves(j) /\ \A k \in (j + 1)..spaces : ~Leaves(k)
       ELSE 0

\* plainText.replace(/^#{1,6}\s+(.+)$/gm, '$1') from pos on
RECURSIVE StripHeaders(_, _)
StripHeaders(s, pos) ==
    LET Matches(i) == HeaderCaptureStart(s, i) > 0
        starts == pos..Len(s)
        at == IF \E i \in starts : Matches(i)
              THEN CHOOSE i \in starts : Matches(i) /\ \A j \in pos..(i - 1) : ~Matches(j)
              ELSE 0
        from == HeaderCaptureStart(s, at)
        to == LineEndFrom(s, from)
    IN IF at = 0 THEN SubSeq(s, pos, Len(s))
       ELSE (SubSeq(s, pos, at - 1) \o SubSeq(s, from, to)) \o StripHeaders(s, to + 1)

\* plainText.replace(/d{n}(.+?)d{n}/g, '$1') from pos on, for a delimiter of n
\* characters d
RECURSIVE StripPairs(_, _, _, _)
StripPairs(s, n, d, pos) ==
    LET Matches(i) == CaptureLen(s, i, n, d) > 0
        starts == pos..Len(s)
        at == IF \E i \in starts : Matches(i)
              THEN CHOOSE i \in starts : Matches(i) /\ \A j \in pos..(i - 1) : ~Matches(j)
              ELSE 0
        len == CaptureLen(s, at, n, d)
    IN IF at = 0 THEN SubSeq(s, pos, Len(s))
       ELSE (SubSeq(s, pos, at - 1) \o SubSeq(s, at + n, at + n + len - 1))
                \o StripPairs(s, n, d, at + 2 * n + len)

\* /^[*-]\s+/m matches at position i
BulletAt(s, i) ==
    LineStartAt(s, i) /\ s[i] \in {"*", "-"} /\ RunLen(s, i + 1, WhiteSpace) >= 1

\* plainText.replace(/^[*-]\s+/gm, '- ') from pos on
RECURSIVE DashBullets(_, _)
DashBullets(s, pos) ==
    LET starts == pos..Len(s)
        at == IF \E i \in starts : BulletAt(s, i)
              THEN CHOOSE i \in starts : BulletAt(s, i) /\ \A j \in pos..(i - 1) : ~BulletAt(s, j)
              ELSE 0
    IN IF at = 0 THEN SubSeq(s, pos, Len(s))
       ELSE (SubSeq(s, pos, at - 1) \o <<"-", " ">>)
                \o DashBullets(s, at + 1 + RunLen(s, at + 1, WhiteSpace))

\* the plainText of saveAsText
PlainTextOf(content) ==
    LET noHeaders == StripHeaders(content, 1)
        noBoldItalic == StripPairs(noHeaders, 3, "*", 1)
        noBold == StripPairs(noBoldItalic, 2, "*", 1)
        noItalic == StripPairs(noBold, 1, "*", 1)
        noCode == StripPairs(noItalic, 1, BackTick, 1)
    IN DashBullets(noCode, 1)

SummaryBanner == <<"S", "U", "M", "M", "A", "R", "Y", ":", " ">>

\* the fullContent saveAsText writes
saveAsText(content, summaryText) ==
    (((SummaryBanner \o summaryText) \o <<"\n">>) \o Chars(80, "=")) \o <<"\n", "\n">>
        \o PlainTextOf(content)

FrontMatterOpen == <<"-", "-", "-", "\n">>
FrontMatterClose == <<"\n", "-", "-", "-", "\n", "\n">>

\* the fullContent saveAsMarkdown writes
saveAsMarkdown(content, summaryText) ==
    (((FrontMatterOpen \o <<"d", "e", "s", "c", "r", "i", "p", "t", "i", "o", "n", ":", " ">>)
        \o summaryText) \o FrontMatterClose) \o content

----------------------------------------------------------------------------
(* FileVerifier.cleanOptimizedContent *)

\* content.replace(/^SUMMARY:.*?\n={80,}\n\n/s, ''): the match ends with the
\* first line end that 80 or more '=' and two line ends follow
StripSummaryHeader(content) ==
    LET Closes(p) ==
            LET signs == RunLen(content, p + 1, {"="})
            IN /\ content[p] = "\n"
               /\ signs >= 80
               /\ p + signs + 2 <= Len(content)
               /\ content[p + signs + 1] = "\n"
               /\ content[p + signs + 2] = "\n"
        ends == 9..Len(content)
    IN IF StartsWith(content, <<"S", "U", "M", "M", "A", "R", "Y", ":">>) /\ \E p \in ends : Closes(p)
       THEN LET p == CHOOSE q \in ends : Closes(q) /\ \A j \in 9..(q - 1) : ~Closes(j)
            IN Substring(content, p + RunLen(content, p + 1, {"="}) + 2)
       ELSE content

\* cleaned.replace(/^---\n.*?\n---\n\n/s, ''): the match ends with the first
\* '\n---\n\n' after the opening line
StripFrontMatter(content) ==
    LET Closes(p) ==
            /\ p + Len(FrontMatterClose) - 1 <= Len(content)
            /\ SubSeq(content, p, p + Len(FrontMatterClose) - 1) = FrontMatterClose
        ends == (Len(FrontMatterOpen) + 1)..Len(content)
    IN IF StartsWith(content, FrontMatterOpen) /\ \E p \in ends : Closes(p)
       THEN LET p == CHOOSE q \in ends :
                        Closes(q) /\ \A j \in (Len(FrontMatterOpen) + 1)..(q - 1) : ~Closes(j)
            IN Substring(content, p + Len(FrontMatterClose) - 1)
       ELSE content

cleanOptimizedContent(content) == StripFrontMatter(StripSummaryHeader(content))

----------------------------------------------------------------------------
(* FileWriter: saveOptimizedContent, saveSplitFiles *)

\* A path is a directory (the sequence of its segments) and a file name; a
\* file name is a sequence of characters in which a suffix ("_optimized") and
\* an extension (".txt") are single elements.  The original file is given by
\* its directory, its path.basename without the extension and its path.extname.

\* path.join(outputDir, name) for a name without separators
PathJoin(dir, name) == [dir |-> dir, name |-> name]

\* String.prototype.toLowerCase on the characters and extensions of the model
ToLowerCase(c) ==
    CASE c = "A" -> "a"
      [] c = "B" -> "b"
      [] c = ".DOCX" -> ".docx"
      [] c = ".PDF" -> ".pdf"
      [] OTHER -> c

\* the regex class [a-z0-9]
AlphaNum ==
    {"a", "b", "c", "d", "e", "f", "g", "h", "i", "j", "k", "l", "m", "n", "o", "p", "q", "r",
     "s", "t", "u", "v", "w", "x", "y", "z"} \cup DigitChars

\* the formats the two switch statements have a case for
SupportedFormats == {"txt", "md", "docx"}

\* outputFormat: 'original' stands for docx when the original is a .docx and
\* for md otherwise
OutputFormat(format, original) ==
    IF format = "original"
    THEN (IF ToLowerCase(original.ext) = ".docx" THEN "docx" ELSE "md")
    ELSE format

\* what saveAsText, saveAsMarkdown or saveAsWordDocument writes: the content
\* and the summary it was given, in the format of that function
FileData(format, content, summaryText) ==
    [format |-> format, content |-> content, summary |-> summaryText]

\* fs.writeFile(outputPath, data)
WriteFile(files, outputPath, data) ==
    [p \in DOMAIN files \cup {outputPath} |-> IF p = outputPath THEN data ELSE files[p]]

UnsupportedFormat == "Unsupported export format"

\* saveOptimizedContent: the files after the call, and the path returned or
\* the error thrown
saveOptimizedContent(format, original, content, summaryText, outputDir, files) ==
    LET outputFormat == OutputFormat(format, original)
        outputPath == PathJoin(outputDir,
                               (original.base \o <<"_optimized">>) \o <<"." \o outputFormat>>)
    IN IF outputFormat \in SupportedFormats
       THEN [files |-> WriteFile(files, outputPath, FileData(outputFormat, content, summaryText)),
             returned |-> outputPath, error |-> "none"]
       ELSE [files |-> files, returned |-> "none", error |-> UnsupportedFormat]

\* name.replace(/[^a-z0-9]+/g, '-')
DashRuns(name) ==
    LET dashed == [i \in 1..Len(name) |->
                      IF name[i] \in AlphaNum THEN name[i]
                      ELSE IF i > 1 /\ name[i - 1] \notin AlphaNum THEN "" ELSE "-"]
    IN RemoveAll(dashed, {""})

\* name.replace(/^-|-$/g, '')
StripEdgeDashes(name) ==
    LET noLead == IF name # <<>> /\ Head(name) = "-" THEN Tail(name) ELSE name
    IN IF noLead # <<>> /\ noLead[Len(noLead)] = "-"
       THEN SubSeq(noLead, 1, Len(noLead) - 1)
       ELSE noLead

sanitizeFilename(name) ==
    LET lower == [i \in 1..Len(name) |-> ToLowerCase(name[i])]
        stripped == StripEdgeDashes(DashRuns(lower))
    IN SubSeq(stripped, 1, IF Len(stripped) < 50 THEN Len(stripped) ELSE 50)

\* the for loop of saveSplitFiles from topic i (zero-based) on
RECURSIVE SplitLoop(_, _, _, _, _, _, _, _)
SplitLoop(outputFormat, original, topicList, contents, outputDir, i, files, savedFiles) ==
    IF i >= Len(topicList) THEN [files |-> files, returned |-> savedFiles, error |-> "none"]
    ELSE IF outputFormat \notin SupportedFormats
    THEN [files |-> files, returned |-> "none", error |-> UnsupportedFormat]
    ELSE LET topic == topicList[i + 1]
             outputPath ==
                 PathJoin(outputDir,
                          ((original.base \o <<"_">>) \o sanitizeFilename(topic.topicName))
                              \o <<"." \o outputFormat>>)
         IN SplitLoop(outputFormat, original, topicList, contents, outputDir, i + 1,
                      WriteFile(files, outputPath,
                                FileData(outputFormat, contents[i + 1], topic.description)),
                      Append(savedFiles, outputPath))

saveSplitFiles(format, original, topicList, contents, outputDir, files) ==
    SplitLoop(OutputFormat(format, original), original, topicList, contents, outputDir,
              0, files, <<>>)

----------------------------------------------------------------------------
(* FileVerifier.verifyFilePair, FileVerifier.reOptimizeFile *)

\* the safety limit of the retry loop
maxAttempts == 10

\* the files an attempt reads: the files of the split folder when the match is
\* a split (combineSplitFiles), the optimized file otherwise; each with what
\* it holds
OptimizedRead(match, files) ==
    IF match.isSplit
    THEN {[path |-> p, data |-> files[p]] : p \in match.optimizedItem.files}
    ELSE {[path |-> match.optimizedItem.path, data |-> files[match.optimizedItem.path]]}

\* reOptimizeFile once optimizeContent and generateSummary have returned: the
\* files after the call, the value returned, and what was saved where
reOptimizeFile(match, format, optimizedContent, summaryText, optimizedFolder, files) ==
    LET result == saveOptimizedContent(format, match.rawFile, optimizedContent, summaryText,
                                       optimizedFolder, files)
    IN IF result.error # "none"
       THEN [files |-> files, returned |-> "failed", saved |-> <<>>]
       ELSE [files |-> result.files, returned |-> "success",
             saved |-> <<[path |-> result.returned, data |-> result.files[result.returned]]>>]

----------------------------------------------------------------------------
(* ProgressTracker *)

\* lastRunDate is <<>> for null and <<t>> for the time t

\* the progress a new ProgressTracker holds, and reset() installs
FreshProgress ==
    [processedFiles |-> <<>>, lastRunDate |-> <<>>, totalProcessed |-> 0,
     stats |-> [approved |-> 0, rejected |-> 0, split |-> 0]]

isProcessed(p, filePath) ==
    \E i \in DOMAIN p.processedFiles : p.processedFiles[i].path = filePath

\* processedFiles.filter(f => f.path !== filePath)
WithoutPath(files, filePath) ==
    LET Other(f) == f.path # filePath
    IN SelectSeq(files, Other)

\* the if / else-if chains that add d to the statistic of an action
Counted(stats, action, d) ==
    IF action \in {"approved", "rejected", "split"}
    THEN [stats EXCEPT ![action] = @ + d]
    ELSE stats

\* markProcessed without the filter that removes the earlier record
markProcessedKeepingOld(p, filePath, fileName, action, outputFiles, now) ==
    LET record == [path |-> filePath, name |-> fileName, action |-> action,
                   processedAt |-> now + 1, outputFiles |-> outputFiles]
        files == Append(p.processedFiles, record)
    IN [processedFiles |-> files, totalProcessed |-> Len(files), lastRunDate |-> <<now + 2>>,
        stats |-> Counted(p.stats, action, 1)]

\* markProcessed at time `now`: the two calls of new Date() give now + 1, now + 2
markProcessed(p, filePath, fileName, action, outputFiles, now) ==
    LET record == [path |-> filePath, name |-> fileName, action |-> action,
                   processedAt |-> now + 1, outputFiles |-> outputFiles]
        files == Append(WithoutPath(p.processedFiles, filePath), record)
    IN [processedFiles |-> files, totalProcessed |-> Len(files), lastRunDate |-> <<now + 2>>,
        stats |-> Counted(p.stats, action, 1)]

\* processedFiles.find(f => f.path === filePath), <<>> for undefined
getFileRecord(p, filePath) ==
    LET Same(f) == f.path = filePath
        found == SelectSeq(p.processedFiles, Same)
    IN IF found = <<>> THEN <<>> ELSE <<Head(found)>>

\* unmarkFile: the progress after the call and the value returned
unmarkFile(p, filePath) ==
    LET file == getFileRecord(p, filePath)
    IN IF file # <<>>
       THEN LET files == WithoutPath(p.processedFiles, filePath)
            IN [progress |-> [p EXCEPT !.stats = Counted(p.stats, file[1].action, -1),
                                       !.processedFiles = files,
                                       !.totalProcessed = Len(files)],
                returned |-> TRUE]
       ELSE [progress |-> p, returned |-> FALSE]

\* filterUnprocessedFiles that filters nothing out
filterNoFile(p, fileList) == fileList

\* filterUnprocessedFiles(allFiles)
filterUnprocessedFiles(p, fileList) ==
    LET Unprocessed(file) == ~isProcessed(p, file.path)
    IN SelectSeq(fileList, Unprocessed)

\* getStats()
getStats(p) ==
    [totalProcessed |-> p.totalProcessed, approved |-> p.stats.approved,
     rejected |-> p.stats.rejected, split |-> p.stats.split, lastRunDate |-> p.lastRunDate]

----------------------------------------------------------------------------
(* FileVerifier: scanRawFilesRecursive, scanOptimizedFilesRecursive, matchFiles *)

\* A folder is the sequence of its entries in the order readdir lists them; an
\* entry has a name, is a file or a folder, and a folder has entries.  A
\* relative path is the sequence of the folder names that lead to an entry
\* (empty for '.') and the name of the entry.

File(name) == [name |-> name, kind |-> "file", entries |-> <<>>]
Folder(name, entries) == [name |-> name, kind |-> "dir", entries |-> entries]

\* the name of a folder as one segment of a path
RECURSIVE Segment(_)
Segment(name) == IF name = <<>> THEN "" ELSE Head(name) \o Segment(Tail(name))

DotExtensions == {".docx", ".pdf", ".txt", ".md", ".DOCX", ".PDF"}

\* path.extname(name)
ExtName(name) ==
    IF Len(name) > 1 /\ name[Len(name)] \in DotExtensions THEN name[Len(name)] ELSE ""

\* path.basename(name, ext)
BaseName(name, ext) ==
    IF Len(name) > 1 /\ name[Len(name)] = ext THEN SubSeq(name, 1, Len(name) - 1) ELSE name

\* entry.name.startsWith('.') || entry.name.startsWith('~$')
HiddenOrTemp(name) == name # <<>> /\ Head(name) \in {".", "~$"}

RawExtensions == {".docx", ".pdf", ".txt", ".md"}
OptimizedExtensions == {".txt", ".md", ".docx"}

\* the record of a file found under the folder basePath \o rel
FileItem(basePath, rel, name) ==
    [type |-> "file", name |-> name, path |-> PathJoin(basePath \o rel, name),
     relativePath |-> [dir |-> rel, name |-> name],
     extension |-> ToLowerCase(ExtName(name)), files |-> <<>>]

RECURSIVE scanRawFilesRecursive(_, _, _, _)
scanRawFilesRecursive(entries, basePath, rel, files) ==
    IF entries = <<>> THEN files
    ELSE LET entry == Head(entries)
             rest == Tail(entries)
         IN IF HiddenOrTemp(entry.name)
            THEN scanRawFilesRecursive(rest, basePath, rel, files)
            ELSE IF entry.kind = "dir"
            THEN scanRawFilesRecursive(rest, basePath, rel,
                    scanRawFilesRecursive(entry.entries, basePath,
                                          Append(rel, Segment(entry.name)), files))
            ELSE IF ToLowerCase(ExtName(entry.name)) \in RawExtensions
            THEN scanRawFilesRecursive(rest, basePath, rel,
                                       Append(files, FileItem(basePath, rel, entry.name)))
            ELSE scanRawFilesRecursive(rest, basePath, rel, files)

\* scanSubfolder: the optimized files directly in a folder
scanSubfolder(entries, folderPath) ==
    LET Optimized(entry) ==
            entry.kind = "file" /\ ToLowerCase(ExtName(entry.name)) \in OptimizedExtensions
        found == SelectSeq(entries, Optimized)
    IN [i \in 1..Len(found) |->
            [name |-> found[i].name, path |-> PathJoin(folderPath, found[i].name),
             extension |-> ToLowerCase(ExtName(found[i].name))]]

RECURSIVE scanOptimizedFilesRecursive(_, _, _, _)
scanOptimizedFilesRecursive(entries, basePath, rel, items) ==
    IF entries = <<>> THEN items
    ELSE LET entry == Head(entries)
             rest == Tail(entries)
             inside == Append(rel, Segment(entry.name))
             subfiles == scanSubfolder(entry.entries, basePath \o inside)
         IN IF HiddenOrTemp(entry.name)
            THEN scanOptimizedFilesRecursive(rest, basePath, rel, items)
            ELSE IF entry.kind = "file"
            THEN IF ToLowerCase(ExtName(entry.name)) \in OptimizedExtensions
                 THEN scanOptimizedFilesRecursive(rest, basePath, rel,
                            Append(items, FileItem(basePath, rel, entry.name)))
                 ELSE scanOptimizedFilesRecursive(rest, basePath, rel, items)
            ELSE IF Len(subfiles) > 0
            THEN scanOptimizedFilesRecursive(rest, basePath, rel,
                    Append(items, [type |-> "split", name |-> entry.name,
                                   path |-> PathJoin(basePath \o rel, entry.name),
                                   relativePath |-> [dir |-> rel, name |-> entry.name],
                                   extension |-> "", files |-> subfiles]))
            ELSE scanOptimizedFilesRecursive(rest, basePath, rel,
                    scanOptimizedFilesRecursive(entry.entries, basePath, inside, items))

\* name.replace(/_optimized\.(txt|md|docx)$/, '')
StripOptimizedSuffix(name) ==
    IF /\ Len(name) >= 2
       /\ name[Len(name) - 1] = "_optimized"
       /\ name[Len(name)] \in {".txt", ".md", ".docx"}
    THEN SubSeq(name, 1, Len(name) - 2)
    ELSE name

\* rawFiles.find(...) for an optimized item, <<>> for undefined
FindRaw(raws, optimizedItem) ==
    LET targetName == IF optimizedItem.type = "file"
                      THEN StripOptimizedSuffix(optimizedItem.name)
                      ELSE optimizedItem.name
        targetDir == optimizedItem.relativePath.dir
        Matching(raw) ==
            /\ raw.relativePath.dir = targetDir
            /\ BaseName(raw.name, raw.extension) = targetName
        found == SelectSeq(raws, Matching)
    IN IF found = <<>> THEN <<>> ELSE <<Head(found)>>

RECURSIVE matchFiles(_, _)
matchFiles(raws, items) ==
    IF items = <<>> THEN <<>>
    ELSE LET optimizedItem == Head(items)
             rawFile == FindRaw(raws, optimizedItem)
         IN (IF rawFile # <<>>
             THEN <<[rawFile |-> rawFile[1], optimizedItem |-> optimizedItem,
                     isSplit |-> optimizedItem.type = "split"]>>
             ELSE <<>>) \o matchFiles(raws, Tail(items))

----------------------------------------------------------------------------
(* Specifications *)

\* the variables a specification does not use stay at these values
IdleLine == line = <<>> /\ lineClass = "none"
IdleText == text = <<>> /\ tablePatterns = <<>> /\ marked = <<>>
IdleTable == tableHtml = <<>> /\ tableRows = <<>> /\ hasHeader = FALSE /\ listText = <<>>
IdleAllTables == docHtml = <<>> /\ rewritten = <<>>
IdleInline == inlineText = <<>> /\ inlineRuns = <<>>
IdleMarkup ==
    markup = <<>> /\ summary = <<>> /\ wordParagraphs = <<>> /\ written = <<>> /\ cleaned = <<>>
IdleExtractor == IdleLine /\ IdleText /\ IdleTable /\ IdleAllTables
IdleSave ==
    /\ exportFormat = "none" /\ originalFilePath = <<>> /\ topics = <<>>
    /\ disk = <<>> /\ outcome = "none"
IdleVerify == pair = <<>> /\ attemptCount = 0 /\ readBack = {} /\ lastSaved = <<>>
IdleTracker == progress = <<>> /\ clock = 0
IdleMatch ==
    /\ rawTree = <<>> /\ optimizedTree = <<>>
    /\ rawFiles = <<>> /\ optimizedItems = <<>> /\ matches = <<>>
IdleOptimize ==
    /\ runCount = 0 /\ allFiles = <<>> /\ loaded = <<>> /\ menuAction = "none"
    /\ filesToProcess = <<>> /\ fileIndex = 0 /\ invoked = <<>>
    /\ candidate = <<>> /\ customPrompt = "null" /\ calls = 0 /\ shown = <<>>
IdleSplit ==
    /\ concurrentTopicOptimizations = 0 /\ topicIndex = 0 /\ batchPromises = <<>>
    /\ optimizedContents = <<>> /\ inFlight = {} /\ settled = <<>>
IdleRun == IdleTracker /\ validation = "none" /\ IdleMatch /\ IdleOptimize /\ IdleSplit
IdleDoc == IdleAllTables /\ IdleInline /\ IdleMarkup /\ IdleSave /\ IdleVerify /\ IdleRun

(* SpecLine: classification of one line by the two detectors *)

LineChars == {"a", " ", "\t", "|"}

InitLine ==
    /\ pc = "input"
    /\ line \in SeqsUpTo(LineChars, MaxLineLen)
    /\ lineClass = "none"
    /\ IdleText
    /\ IdleTable
    /\ IdleDoc

ClassifyLine ==
    /\ pc = "input"
    /\ pc' = "classified"
    /\ lineClass' = [detect |-> DetectLineIsTabular(line), mark |-> MarkLineIsTabular(line)]
    /\ UNCHANGED <<line, text, tablePatterns, marked, tableHtml, tableRows, hasHeader, listText, docVars, runVars>>

NextLine == ClassifyLine

SpecLine == InitLine /\ [][NextLine]_vars

(* SpecText: the two detectors run on a text of up to MaxLines lines *)

BlankLine == <<>>
SpaceLine == <<" ">>
ProseLine == <<"p", " ", "q">>
TabLine == <<"a", "\t", "b", "\t", "c">>
PipeLine == <<"|", "a", "|">>

TextLines == {BlankLine, SpaceLine, ProseLine, TabLine, PipeLine}

InitText ==
    /\ pc = "input"
    /\ \E ls \in SeqsUpTo(TextLines, MaxLines) :
         /\ ls # <<>>
         /\ text = Join(ls, <<"\n">>)
    /\ tablePatterns = <<>>
    /\ marked = <<>>
    /\ IdleLine
    /\ IdleTable
    /\ IdleDoc

DetectTextTables ==
    /\ pc = "input"
    /\ pc' = "detected"
    /\ tablePatterns' = detectTextTables(text)
    /\ UNCHANGED <<text, marked, line, lineClass, tableHtml, tableRows, hasHeader, listText, docVars, runVars>>

MarkTableSections ==
    /\ pc = "input"
    /\ pc' = "marked"
    /\ marked' = markTableSectionsResult(text)
    /\ UNCHANGED <<text, tablePatterns, line, lineClass, tableHtml, tableRows, hasHeader, listText, docVars, runVars>>

NextText == DetectTextTables \/ MarkTableSections

SpecText == InitText /\ [][NextText]_vars

(* SpecTable: one HTML table is transcoded *)

RECURSIVE Concat(_)
Concat(seqs) == IF seqs = <<>> THEN <<>> ELSE Head(seqs) \o Concat(Tail(seqs))

\* the cell contents tables are drawn from, as they stand in the markup
EmptyCell == <<"<br>">>                                     \* parses to ''
PunctCell == <<"b", " ", " ", "<b>", "c", ".", "</b>">>     \* parses to 'b c.'
MediumCell == [i \in 1..26 |-> "m"]
LongCell == [i \in 1..50 |-> "x"]
ShortCell == <<"a">>

RawCells == {EmptyCell, PunctCell, MediumCell, LongCell}

\* a table is drawn with one or two of these contents in its cells
CellPalettes == {kinds \in SUBSET RawCells : Cardinality(kinds) \in {1, 2}}

\* markup of a table given as a sequence of rows of cell contents; the cells
\* of the first row are <th> elements
TableMarkup(table) ==
    LET CellMarkup(r, c) ==
            IF r = 1 THEN (<<"<th>">> \o table[r][c]) \o <<"</th>">>
            ELSE (<<"<td>">> \o table[r][c]) \o <<"</td>">>
        RowMarkup(r) ==
            (<<"<tr>">> \o Concat([c \in 1..Len(table[r]) |-> CellMarkup(r, c)])) \o <<"</tr>">>
    IN (<<"<table>">> \o Concat([r \in 1..Len(table) |-> RowMarkup(r)])) \o <<"</table>">>

InitTable ==
    /\ pc = "input"
    /\ \E kinds \in CellPalettes :
         \E table \in SeqsUpTo(SeqsUpTo(kinds, MaxCols), MaxRows) :
              /\ Len(Concat(table)) <= MaxCells
              /\ tableHtml = TableMarkup(table)
    /\ tableRows = <<>>
    /\ hasHeader = FALSE
    /\ listText = <<>>
    /\ IdleLine
    /\ IdleText
    /\ IdleDoc

ConvertTableToList ==
    /\ pc = "input"
    /\ pc' = "converted"
    /\ tableRows' = parseTableRows(tableHtml)
    /\ hasHeader' = detectHeader(tableRows')
    /\ listText' = ListOfRows(tableRows')      \* = convertTableToList(tableHtml)
    /\ UNCHANGED <<tableHtml, line, lineClass, text, tablePatterns, marked, docVars, runVars>>

NextTable == ConvertTableToList

SpecTable == InitTable /\ [][NextTable]_vars

(* SpecRelist: one HTML table is transcoded, then each detector runs on the *)
(* list that came out                                                       *)

ListCells == {ShortCell, PunctCell}

InitRelist ==
    /\ pc = "input"
    /\ \E table \in SeqsUpTo(SeqsUpTo(ListCells, MaxListCols), MaxListRows) :
         tableHtml = TableMarkup(table)
    /\ tableRows = <<>>
    /\ hasHeader = FALSE
    /\ listText = <<>>
    /\ IdleLine
    /\ IdleText
    /\ IdleDoc

DetectOnList ==
    /\ pc = "converted"
    /\ pc' = "redetected"
    /\ tablePatterns' = detectTextTables(listText)
    /\ UNCHANGED <<tableHtml, tableRows, hasHeader, listText, line, lineClass, text, marked, docVars, runVars>>

MarkOnList ==
    /\ pc = "converted"
    /\ pc' = "remarked"
    /\ marked' = markTableSectionsResult(listText)
    /\ UNCHANGED <<tableHtml, tableRows, hasHeader, listText, line, lineClass, text, tablePatterns, docVars, runVars>>

NextRelist == ConvertTableToList \/ DetectOnList \/ MarkOnList

SpecRelist == InitRelist /\ [][NextRelist]_vars

(* SpecAllTables: the tables of one HTML document are rewritten *)

MaxParts == 3

DollarCells == {<<"a">>, <<"$", "$">>, <<"$", "&">>, <<"$", "1">>}

\* a document is made of paragraphs and of one-cell and two-row tables
DocParts ==
    {<<"<p>", "x", "</p>">>, <<"$", "'">>}
        \cup {TableMarkup(<<<<cell>>>>) : cell \in DollarCells}
        \cup {TableMarkup(<<<<ShortCell>>, <<cell>>>>) : cell \in DollarCells}

InitAllTables ==
    /\ pc = "input"
    /\ \E parts \in SeqsUpTo(DocParts, MaxParts) :
            /\ parts # <<>>
            /\ docHtml = Concat(parts)
    /\ rewritten = <<>>
    /\ IdleLine
    /\ IdleText
    /\ IdleTable
    /\ IdleInline
    /\ IdleMarkup
    /\ IdleSave
    /\ IdleVerify
    /\ IdleRun

ConvertAllTables ==
    /\ pc = "input"
    /\ pc' = "rewritten"
    /\ rewritten' = convertAllTables(docHtml)
    /\ UNCHANGED <<docHtml, tableVars, writerVars, saveVars, runVars>>

NextAllTables == ConvertAllTables

SpecAllTables == InitAllTables /\ [][NextAllTables]_vars

(* SpecInline: the inline formatting of one text is parsed *)

MaxInlinePieces == 5

InlinePieces == {<<"*">>, <<"*", "*">>, <<"*", "*", "*">>, <<"a">>, <<" ">>, <<BackTick>>}

\* '***a*** and *b* and **c**'
InlineExample ==
    <<"*", "*", "*", "a", "*", "*", "*", " ", "a", "n", "d", " ", "*", "b", "*",
      " ", "a", "n", "d", " ", "*", "*", "c", "*", "*">>

InitInline ==
    /\ pc = "input"
    /\ inlineText \in {Concat(pieces) : pieces \in SeqsUpTo(InlinePieces, MaxInlinePieces)}
                          \cup {InlineExample}
    /\ inlineRuns = <<>>
    /\ IdleExtractor
    /\ IdleMarkup
    /\ IdleSave
    /\ IdleVerify
    /\ IdleRun

ParseInlineFormatting ==
    /\ pc = "input"
    /\ pc' = "parsed"
    /\ inlineRuns' = parseInlineFormatting(inlineText)
    /\ UNCHANGED <<inlineText, tableVars, docHtml, rewritten, markup, summary, wordParagraphs,
                   written, cleaned, saveVars, runVars>>

NextInline == ParseInlineFormatting

SpecInline == InitInline /\ [][NextInline]_vars

(* SpecBlock: one line of markdown is parsed *)

MaxBlockPieces == 3

BlockPieces ==
    {<<"#">>, <<"#", "#", "#">>, <<"#", "#", "#", "#">>, <<" ">>, <<"\t">>, <<"-">>,
     <<"-", "-", "-">>, <<"*">>, <<"_">>, <<">">>, <<"1">>, <<".">>, <<"a">>}

InitBlock ==
    /\ pc = "input"
    /\ markup \in {Concat(pieces) : pieces \in SeqsUpTo(BlockPieces, MaxBlockPieces)}
    /\ summary = <<>>
    /\ wordParagraphs = <<>>
    /\ written = <<>>
    /\ cleaned = <<>>
    /\ IdleExtractor
    /\ IdleInline
    /\ IdleSave
    /\ IdleVerify
    /\ IdleRun

MarkdownToWordParagraphs ==
    /\ pc = "input"
    /\ pc' = "paragraphs"
    /\ wordParagraphs' = markdownToWordParagraphs(markup)
    /\ UNCHANGED <<markup, summary, written, cleaned, inlineText, inlineRuns, tableVars,
                   docHtml, rewritten, saveVars, runVars>>

NextBlock == MarkdownToWordParagraphs

SpecBlock == InitBlock /\ [][NextBlock]_vars

(* SpecMarkup: a markdown text is parsed, then saved as plain text *)

MaxMarkupLines == 3

MarkupLines ==
    {<<>>, <<" ">>, <<"#", " ", "T">>, <<"#", "#", " ", "*", "t", "*">>, <<"-", "-", "-">>,
     <<">", " ", "q">>, <<"-", " ", "b">>, <<"*", " ", "*", "i", "*">>,
     <<"1", ".", " ", "n">>, <<"p", " ", BackTick, "c", BackTick>>}

Summaries == {<<"s">>}

InitMarkup ==
    /\ pc = "input"
    /\ \E lines \in SeqsUpTo(MarkupLines, MaxMarkupLines) :
            /\ lines # <<>>
            /\ markup = Join(lines, <<"\n">>)
    /\ summary \in Summaries
    /\ wordParagraphs = <<>>
    /\ written = <<>>
    /\ cleaned = <<>>
    /\ IdleExtractor
    /\ IdleInline
    /\ IdleSave
    /\ IdleVerify
    /\ IdleRun

SaveAsText ==
    /\ pc = "paragraphs"
    /\ pc' = "saved"
    /\ written' = saveAsText(markup, summary)
    /\ UNCHANGED <<markup, summary, wordParagraphs, cleaned, inlineText, inlineRuns, tableVars,
                   docHtml, rewritten, saveVars, runVars>>

NextMarkup == MarkdownToWordParagraphs \/ SaveAsText

SpecMarkup == InitMarkup /\ [][NextMarkup]_vars

(* SpecRoundTrip: a markdown text is saved as markdown, then cleaned *)

\* the summaries: one line, nothing, and two that hold a line '---'
PreambleSummaries ==
    {<<"s">>, <<>>, <<"a", "\n", "-", "-", "-", "\n", "\n", "b">>, <<"a", "\n", "-", "-", "-">>}

InitRoundTrip ==
    /\ pc = "input"
    /\ \E lines \in SeqsUpTo(MarkupLines, MaxMarkupLines) :
            /\ lines # <<>>
            /\ markup = Join(lines, <<"\n">>)
    /\ summary \in PreambleSummaries
    /\ wordParagraphs = <<>>
    /\ written = <<>>
    /\ cleaned = <<>>
    /\ IdleExtractor
    /\ IdleInline
    /\ IdleSave
    /\ IdleVerify
    /\ IdleRun

SaveAsMarkdown ==
    /\ pc = "input"
    /\ pc' = "saved"
    /\ written' = saveAsMarkdown(markup, summary)
    /\ UNCHANGED <<markup, summary, wordParagraphs, cleaned, inlineText, inlineRuns, tableVars,
                   docHtml, rewritten, saveVars, runVars>>

CleanOptimizedContent ==
    /\ pc = "saved"
    /\ pc' = "cleaned"
    /\ cleaned' = cleanOptimizedContent(written)
    /\ UNCHANGED <<markup, summary, wordParagraphs, written, inlineText, inlineRuns, tableVars,
                   docHtml, rewritten, saveVars, runVars>>

NextRoundTrip == SaveAsMarkdown \/ CleanOptimizedContent

SpecRoundTrip == InitRoundTrip /\ [][NextRoundTrip]_vars

(* SpecSave: a FileWriter saves an optimized document, or the topics of a *)
(* split, into an empty output folder                                     *)

MaxTopics == 2

\* 'original', the three formats and one that is none of them
ExportFormats == {"original", "txt", "md", "docx", "pdf"}

OutputFolder == <<"output-files">>

OriginalFiles ==
    {[dir |-> <<"input-files">>, base |-> <<"r">>, ext |-> e] : e \in {".docx", ".DOCX", ".pdf"}}

\* the topic names 'A b', 'a-b' and '!'
TopicNames == {<<"A", " ", "b">>, <<"a", "-", "b">>, <<"!">>}

Topics == {[topicName |-> n, description |-> <<"d">>] : n \in TopicNames}

\* optimizedContents: the content of the i-th topic is called i
ContentsOf(topicList) == [i \in 1..Len(topicList) |-> i]

InitSave ==
    /\ pc = "input"
    /\ exportFormat \in ExportFormats
    /\ originalFilePath \in OriginalFiles
    /\ topics \in SeqsUpTo(Topics, MaxTopics)
    /\ disk = <<>>
    /\ outcome = "none"
    /\ IdleVerify
    /\ IdleRun
    /\ IdleExtractor
    /\ IdleInline
    /\ IdleMarkup

SaveOptimizedContent ==
    /\ pc = "input"
    /\ pc' = "saveOptimizedContent"
    /\ LET result == saveOptimizedContent(exportFormat, originalFilePath, 0, <<"s">>,
                                          OutputFolder, disk)
       IN /\ disk' = result.files
          /\ outcome' = [returned |-> result.returned, error |-> result.error]
    /\ UNCHANGED <<exportFormat, originalFilePath, topics, pair, attemptCount, readBack,
                   lastSaved, tableVars, docHtml, rewritten, writerVars, runVars>>

SaveSplitFiles ==
    /\ pc = "input"
    /\ pc' = "saveSplitFiles"
    /\ LET result == saveSplitFiles(exportFormat, originalFilePath, topics, ContentsOf(topics),
                                    OutputFolder, disk)
       IN /\ disk' = result.files
          /\ outcome' = [returned |-> result.returned, error |-> result.error]
    /\ UNCHANGED <<exportFormat, originalFilePath, topics, pair, attemptCount, readBack,
                   lastSaved, tableVars, docHtml, rewritten, writerVars, runVars>>

NextSave == SaveOptimizedContent \/ SaveSplitFiles

SpecSave == InitSave /\ [][NextSave]_vars

(* SpecVerify: verifyFilePair on one match of a raw file and an optimized *)
(* item, the validation and the user answering as they please            *)

RawFolder == <<"input-files">>

\* the folders, relative to the two roots, a matched pair can be in
RelativeDirs == {<<>>, <<"sub">>}

\* the split folder of a document holds two topic files
SplitFileNames == {<<"t", "1", ".txt">>, <<"t", "2", ".txt">>}

\* the matches matchFiles makes for a raw file r.<ext> in a folder: with the
\* file r_optimized.<format> in the same folder of the output, and with the
\* split folder r there
FileMatch(rel, ext, format) ==
    [rawFile |-> [dir |-> RawFolder \o rel, base |-> <<"r">>, ext |-> ext],
     optimizedItem |-> [type |-> "file",
                        path |-> PathJoin(OutputFolder \o rel, <<"r", "_optimized", "." \o format>>),
                        files |-> {}],
     isSplit |-> FALSE]

SplitMatch(rel, ext) ==
    [rawFile |-> [dir |-> RawFolder \o rel, base |-> <<"r">>, ext |-> ext],
     optimizedItem |-> [type |-> "split",
                        path |-> PathJoin(OutputFolder \o rel, <<"r">>),
                        files |-> {PathJoin((OutputFolder \o rel) \o <<"r">>, n) : n \in SplitFileNames}],
     isSplit |-> TRUE]

Matches ==
    {FileMatch(rel, ext, format) : rel \in RelativeDirs, ext \in {".docx", ".txt"},
                                   format \in SupportedFormats}
        \cup {SplitMatch(rel, ext) : rel \in RelativeDirs, ext \in {".docx", ".txt"}}

\* the optimized files of a match as an earlier run left them, with content 0
FirstRun(match) ==
    LET paths == IF match.isSplit THEN match.optimizedItem.files ELSE {match.optimizedItem.path}
    IN [p \in paths |-> FileData("earlier", 0, <<"s">>)]

InitVerify ==
    /\ pc = "verify"
    /\ exportFormat \in ExportFormats
    /\ pair \in Matches
    /\ disk = FirstRun(pair)
    /\ attemptCount = 0
    /\ readBack = {}
    /\ lastSaved = <<>>
    /\ outcome = "none"
    /\ originalFilePath = <<>>
    /\ topics = <<>>
    /\ IdleExtractor
    /\ IdleInline
    /\ IdleMarkup
    /\ validation = "none"
    /\ IdleTracker
    /\ IdleMatch
    /\ IdleOptimize
    /\ IdleSplit

\* the head of the retry loop: the optimized content is read and validated;
\* validateAccuracy answers as it pleases
ExtractOptimized ==
    /\ pc = "verify"
    /\ attemptCount < maxAttempts
    /\ attemptCount' = attemptCount + 1
    /\ readBack' = OptimizedRead(pair, disk)
    /\ validation' \in BOOLEAN
    /\ pc' = "validated"
    /\ UNCHANGED <<exportFormat, originalFilePath, topics, disk, outcome, pair, lastSaved,
                   tableVars, docHtml, rewritten, writerVars, batchVars>>

\* extractContent, readFile or validateAccuracy threw
VerifyError ==
    /\ pc = "verify"
    /\ attemptCount < maxAttempts
    /\ attemptCount' = attemptCount + 1
    /\ outcome' = "failed"
    /\ pc' = "done"
    /\ UNCHANGED <<exportFormat, originalFilePath, topics, disk, pair, readBack, lastSaved,
                   tableVars, docHtml, rewritten, writerVars, runVars>>

\* validation.accurate
AccuracyPassed ==
    /\ pc = "validated"
    /\ validation
    /\ outcome' = IF attemptCount > 1 THEN "re-optimized" ELSE "passed"
    /\ pc' = "done"
    /\ UNCHANGED <<exportFormat, originalFilePath, topics, disk, pair, attemptCount, readBack,
                   lastSaved, tableVars, docHtml, rewritten, writerVars, runVars>>

\* the validation failed and the user chose to skip
Skipped ==
    /\ pc = "validated"
    /\ ~validation
    /\ outcome' = "skipped"
    /\ pc' = "done"
    /\ UNCHANGED <<exportFormat, originalFilePath, topics, disk, pair, attemptCount, readBack,
                   lastSaved, tableVars, docHtml, rewritten, writerVars, runVars>>

\* the validation failed and the user chose one of the three re-optimizations;
\* the new content is called by the number of the attempt that asked for it
ReOptimizeFile ==
    /\ pc = "validated"
    /\ ~validation
    /\ \E apiError \in BOOLEAN :
         LET result == IF apiError
                       THEN [files |-> disk, returned |-> "failed", saved |-> <<>>]
                       ELSE reOptimizeFile(pair, exportFormat, attemptCount, <<"s">>,
                                           OutputFolder, disk)
         IN /\ disk' = result.files
            /\ IF result.returned = "failed"
               THEN /\ outcome' = "failed"
                    /\ pc' = "done"
                    /\ UNCHANGED lastSaved
               ELSE /\ lastSaved' = result.saved
                    /\ pc' = "verify"
                    /\ UNCHANGED outcome
    /\ UNCHANGED <<exportFormat, originalFilePath, topics, pair, attemptCount, readBack,
                   tableVars, docHtml, rewritten, writerVars, runVars>>

\* the loop ended by the safety limit
MaxAttemptsReached ==
    /\ pc = "verify"
    /\ attemptCount >= maxAttempts
    /\ outcome' = "failed"
    /\ pc' = "done"
    /\ UNCHANGED <<exportFormat, originalFilePath, topics, disk, pair, attemptCount, readBack,
                   lastSaved, tableVars, docHtml, rewritten, writerVars, runVars>>

NextVerify ==
    \/ ExtractOptimized
    \/ VerifyError
    \/ AccuracyPassed
    \/ Skipped
    \/ ReOptimizeFile
    \/ MaxAttemptsReached

SpecVerify == InitVerify /\ [][NextVerify]_vars

\* verifyFilePair is run to its end: a prompt is answered, a call returns
SpecVerifyFair == SpecVerify /\ WF_vars(NextVerify)

(* SpecTextTrip: a text is saved as plain text, then cleaned *)

MaxBodyPieces == 4

\* the pieces of a body: a line '---', a line of text, an empty line and a
\* line that starts with 'SUMMARY:'
BodyPieces ==
    {<<"-", "-", "-", "\n">>, <<"a", "\n">>, <<"\n">>,
     <<"S", "U", "M", "M", "A", "R", "Y", ":", " ", "x", "\n">>}

\* the summaries: one line, nothing, and two lines
TextSummaries == {<<"s">>, <<>>, <<"a", "\n", "b">>}

InitTextTrip ==
    /\ pc = "input"
    /\ \E pieces \in SeqsUpTo(BodyPieces, MaxBodyPieces) :
            /\ pieces # <<>>
            /\ markup = Join(pieces, <<>>)
    /\ summary \in TextSummaries
    /\ wordParagraphs = <<>>
    /\ written = <<>>
    /\ cleaned = <<>>
    /\ IdleExtractor
    /\ IdleInline
    /\ IdleSave
    /\ IdleVerify
    /\ IdleRun

SaveAsTextFile ==
    /\ pc = "input"
    /\ pc' = "saved"
    /\ written' = saveAsText(markup, summary)
    /\ UNCHANGED <<markup, summary, wordParagraphs, cleaned, inlineText, inlineRuns, tableVars,
                   docHtml, rewritten, saveVars, runVars>>

NextTextTrip == SaveAsTextFile \/ CleanOptimizedContent

SpecTextTrip == InitTextTrip /\ [][NextTextTrip]_vars

(* SpecTracker: markProcessed, unmarkFile and reset on a new ProgressTracker *)

MaxClock == 8

\* the files of the input folder, as scanDirectory reports them
ScanFiles == {[path |-> f, name |-> f.base \o <<f.ext>>] : f \in OriginalFiles}

Actions == {"approved", "rejected", "split"}

\* the output files recorded with an action
OutputFilesOf(action) == IF action = "rejected" THEN <<>> ELSE <<"out">>

InitTracker ==
    /\ pc = "tracker"
    /\ progress = FreshProgress
    /\ clock = 0
    /\ validation = "none"
    /\ IdleMatch
    /\ IdleOptimize
    /\ IdleSplit
    /\ IdleExtractor
    /\ IdleInline
    /\ IdleMarkup
    /\ IdleSave
    /\ IdleVerify

MarkProcessed ==
    /\ pc = "tracker"
    /\ clock + 2 <= MaxClock
    /\ \E file \in ScanFiles, action \in Actions :
            progress' = markProcessed(progress, file.path, file.name, action,
                                      OutputFilesOf(action), clock)
    /\ clock' = clock + 2
    /\ UNCHANGED <<pc, tableVars, docVars, validation, matchVars, optimizeVars, splitVars>>

UnmarkFile ==
    /\ pc = "tracker"
    /\ \E file \in ScanFiles : progress' = unmarkFile(progress, file.path).progress
    /\ UNCHANGED <<pc, clock, tableVars, docVars, validation, matchVars, optimizeVars, splitVars>>

Reset ==
    /\ pc = "tracker"
    /\ progress' = FreshProgress
    /\ UNCHANGED <<pc, clock, tableVars, docVars, validation, matchVars, optimizeVars, splitVars>>

NextTracker == MarkProcessed \/ UnmarkFile \/ Reset

SpecTracker == InitTracker /\ [][NextTracker]_vars

(* SpecMatch: verifyFiles scans the raw and the optimized folder and matches *)

MaxEntries == 2

\* raw documents r.docx, r.pdf, r.DOCX, a temporary file, and r.docx in a subfolder
RawEntries ==
    {File(<<"r", ".docx">>), File(<<"r", ".pdf">>), File(<<"r", ".DOCX">>),
     File(<<"~$", "r", ".docx">>), Folder(<<"sub">>, <<File(<<"r", ".docx">>)>>)}

\* optimized files of r, alone or in a subfolder, split folders of r at the top
\* and in a subfolder, and an empty folder
OptimizedEntries ==
    {File(<<"r", "_optimized", ".txt">>), File(<<"r", "_optimized", ".md">>),
     Folder(<<"sub">>, <<File(<<"r", "_optimized", ".txt">>)>>),
     Folder(<<"r">>, <<File(<<"t", "1", ".txt">>), File(<<"t", "2", ".txt">>)>>),
     Folder(<<"sub">>, <<Folder(<<"r">>, <<File(<<"t", "1", ".txt">>)>>)>>),
     Folder(<<"e">>, <<>>)}

\* the folders of at most MaxEntries entries with different names
FoldersOf(entries) ==
    {folder \in SeqsUpTo(entries, MaxEntries) :
        \A i, j \in DOMAIN folder : folder[i].name = folder[j].name => i = j}

InitMatch ==
    /\ pc = "scan"
    /\ rawTree \in FoldersOf(RawEntries)
    /\ optimizedTree \in FoldersOf(OptimizedEntries)
    /\ rawFiles = <<>>
    /\ optimizedItems = <<>>
    /\ matches = <<>>
    /\ validation = "none"
    /\ IdleTracker
    /\ IdleOptimize
    /\ IdleSplit
    /\ IdleExtractor
    /\ IdleInline
    /\ IdleMarkup
    /\ IdleSave
    /\ IdleVerify

ScanRawFilesRecursive ==
    /\ pc = "scan"
    /\ pc' = "raw scanned"
    /\ rawFiles' = scanRawFilesRecursive(rawTree, RawFolder, <<>>, <<>>)
    /\ UNCHANGED <<rawTree, optimizedTree, optimizedItems, matches, tableVars, docVars,
                   validation, trackerVars, optimizeVars, splitVars>>

ScanOptimizedFilesRecursive ==
    /\ pc = "raw scanned"
    /\ pc' = "scanned"
    /\ optimizedItems' = scanOptimizedFilesRecursive(optimizedTree, OutputFolder, <<>>, <<>>)
    /\ UNCHANGED <<rawTree, optimizedTree, rawFiles, matches, tableVars, docVars,
                   validation, trackerVars, optimizeVars, splitVars>>

MatchFiles ==
    /\ pc = "scanned"
    /\ pc' = "matched"
    /\ matches' = matchFiles(rawFiles, optimizedItems)
    /\ UNCHANGED <<rawTree, optimizedTree, rawFiles, optimizedItems, tableVars, docVars,
                   validation, trackerVars, optimizeVars, splitVars>>

NextMatch == ScanRawFilesRecursive \/ ScanOptimizedFilesRecursive \/ MatchFiles

SpecMatch == InitMatch /\ [][NextMatch]_vars

(* SpecOptimize: processFiles is run, and run again, over an input folder; *)
(* the operator, the service and the file system answer as they please     *)

MaxRuns == 2
MaxOptimizeCalls == 2

\* the formats of the runs: one the writer supports and one it does not
RunFormats == {"txt", "pdf"}

\* the input folder: empty, or three documents in the order of the scan
ScannedFolders ==
    {<<>>} \cup {<<a, b, c>> : a \in {f \in ScanFiles : f.path.ext = ".docx"},
                             b \in {f \in ScanFiles : f.path.ext = ".DOCX"},
                             c \in {f \in ScanFiles : f.path.ext = ".pdf"}}

\* what analyzeTopics can return: no topic, one, or the two topics 'A b', '!'
AnalyzedTopics ==
    LET first == [topicName |-> <<"A", " ", "b">>, description |-> <<"d">>]
        second == [topicName |-> <<"!">>, description |-> <<"d">>]
    IN {<<>>, <<first>>, <<first, second>>}

\* the variables of the other specifications
outsideOptimize ==
    <<tableVars, docHtml, rewritten, writerVars, originalFilePath, topics, pair, attemptCount,
      readBack, lastSaved, matchVars, splitVars>>

InitOptimize ==
    /\ pc = "start"
    /\ runCount = 0
    /\ allFiles \in ScannedFolders
    /\ exportFormat \in RunFormats
    /\ progress = FreshProgress
    /\ clock = 0
    /\ loaded = <<>>
    /\ menuAction = "none"
    /\ filesToProcess = <<>>
    /\ fileIndex = 0
    /\ invoked = <<>>
    /\ candidate = <<>>
    /\ customPrompt = "null"
    /\ calls = 0
    /\ shown = <<>>
    /\ validation = "none"
    /\ disk = <<>>
    /\ outcome = "none"
    /\ originalFilePath = <<>>
    /\ topics = <<>>
    /\ IdleVerify
    /\ IdleMatch
    /\ IdleSplit
    /\ IdleExtractor
    /\ IdleInline
    /\ IdleMarkup

\* the file processFile was called with
CurrentFile == filesToProcess[fileIndex + 1]

\* the for loop is entered unless there is nothing to process
EnterLoop(files) ==
    /\ filesToProcess' = files
    /\ fileIndex' = 0
    /\ pc' = IF Len(files) = 0 THEN "finished" ELSE "loop"

\* processFile returned: its locals are gone, and the for loop goes on to the
\* next file, or ends
Returned(shouldContinue) ==
    /\ candidate' = <<>>
    /\ customPrompt' = "null"
    /\ calls' = 0
    /\ shown' = <<>>
    /\ validation' = "none"
    /\ IF shouldContinue /\ fileIndex + 1 < Len(filesToProcess)
       THEN pc' = "loop" /\ fileIndex' = fileIndex + 1
       ELSE pc' = "finished" /\ fileIndex' = fileIndex

\* the catch of processFile: the error is shown and confirmContinue answers
Caught ==
    /\ outcome' = "failed"
    /\ \E shouldContinue \in BOOLEAN : Returned(shouldContinue)

\* processFiles up to the menu: the progress is loaded, the folder scanned
StartRun ==
    /\ pc \in {"start", "finished"}
    /\ runCount < MaxRuns
    /\ runCount' = runCount + 1
    /\ loaded' = progress
    /\ invoked' = <<>>
    /\ menuAction' = "none"
    /\ outcome' = "none"
    /\ IF Len(allFiles) = 0
       THEN pc' = "finished" /\ UNCHANGED <<filesToProcess, fileIndex>>
       ELSE IF getStats(progress).totalProcessed > 0
       THEN pc' = "menu" /\ filesToProcess' = allFiles /\ fileIndex' = 0
       ELSE EnterLoop(allFiles)
    /\ UNCHANGED <<allFiles, candidate, customPrompt, calls, shown, validation, progress, clock,
                   exportFormat, disk, outsideOptimize>>

\* the answer 'view': the processed files are displayed, the menu comes back
MenuView ==
    /\ pc = "menu"
    /\ menuAction' = "view"
    /\ UNCHANGED <<pc, runCount, allFiles, loaded, filesToProcess, fileIndex, invoked, candidate,
                   customPrompt, calls, shown, validation, progress, clock, exportFormat, disk,
                   outcome, outsideOptimize>>

MenuReset ==
    /\ pc = "menu"
    /\ menuAction' = "reset"
    /\ progress' = FreshProgress
    /\ EnterLoop(allFiles)
    /\ UNCHANGED <<runCount, allFiles, loaded, invoked, candidate, customPrompt, calls, shown,
                   validation, clock, exportFormat, disk, outcome, outsideOptimize>>

MenuExit ==
    /\ pc = "menu"
    /\ menuAction' = "exit"
    /\ pc' = "finished"
    /\ UNCHANGED <<runCount, allFiles, loaded, filesToProcess, fileIndex, invoked, candidate,
                   customPrompt, calls, shown, validation, progress, clock, exportFormat, disk,
                   outcome, outsideOptimize>>

MenuContinue ==
    /\ pc = "menu"
    /\ menuAction' = "continue"
    /\ EnterLoop(filterUnprocessedFiles(progress, allFiles))
    /\ UNCHANGED <<runCount, allFiles, loaded, invoked, candidate, customPrompt, calls, shown,
                   validation, progress, clock, exportFormat, disk, outcome, outsideOptimize>>

\* processFile is called and extractContent returns
ExtractContent ==
    /\ pc = "loop"
    /\ invoked' = Append(invoked, CurrentFile)
    /\ outcome' = "none"
    /\ pc' = "optimize"
    /\ UNCHANGED <<runCount, allFiles, loaded, menuAction, filesToProcess, fileIndex, candidate,
                   customPrompt, calls, shown, validation, progress, clock, exportFormat, disk,
                   outsideOptimize>>

\* processFile is called and extractContent throws
ExtractContentFails ==
    /\ pc = "loop"
    /\ invoked' = Append(invoked, CurrentFile)
    /\ Caught
    /\ UNCHANGED <<runCount, allFiles, loaded, menuAction, filesToProcess, progress, clock,
                   exportFormat, disk, outsideOptimize>>

\* the head of the while loop: optimizeContent, validateAccuracy, the displays;
\* what the n-th calls for a file return is called n
OptimizeContent ==
    /\ pc = "optimize"
    /\ candidate' = <<calls + 1>>
    /\ validation' = calls + 1
    /\ calls' = calls + 1
    /\ pc' = "prompt"
    /\ UNCHANGED <<runCount, allFiles, loaded, menuAction, filesToProcess, fileIndex, invoked,
                   customPrompt, shown, progress, clock, exportFormat, disk, outcome,
                   outsideOptimize>>

\* optimizeContent or validateAccuracy throws
OptimizeContentFails ==
    /\ pc = "optimize"
    /\ Caught
    /\ UNCHANGED <<runCount, allFiles, loaded, menuAction, filesToProcess, invoked, progress,
                   clock, exportFormat, disk, outsideOptimize>>

\* the answer 'approve' with the record made before the file is saved
ApproveRecordingFirst ==
    /\ pc = "prompt"
    /\ \E failure \in BOOLEAN :
         LET result == saveOptimizedContent(exportFormat, CurrentFile.path, candidate[1],
                                            <<"s">>, OutputFolder, disk)
             saved == ~failure /\ result.error = "none"
         IN /\ progress' = markProcessed(progress, CurrentFile.path, CurrentFile.name,
                                         "approved", <<>>, clock)
            /\ clock' = clock + 2
            /\ disk' = IF saved THEN result.files ELSE disk
            /\ IF saved THEN outcome' = "approved" /\ Returned(TRUE) ELSE Caught
    /\ UNCHANGED <<runCount, allFiles, loaded, menuAction, filesToProcess, invoked, exportFormat,
                   outsideOptimize>>

\* the answer 'approve': the summary is made, the file saved and recorded,
\* unless generateSummary or saveOptimizedContent throws
Approve ==
    /\ pc = "prompt"
    /\ \E failure \in BOOLEAN :
         LET result == saveOptimizedContent(exportFormat, CurrentFile.path, candidate[1],
                                            <<"s">>, OutputFolder, disk)
         IN IF failure \/ result.error # "none"
            THEN /\ Caught
                 /\ UNCHANGED <<progress, clock, disk>>
            ELSE /\ disk' = result.files
                 /\ progress' = markProcessed(progress, CurrentFile.path, CurrentFile.name,
                                              "approved", <<result.returned>>, clock)
                 /\ clock' = clock + 2
                 /\ outcome' = "approved"
                 /\ Returned(TRUE)
    /\ UNCHANGED <<runCount, allFiles, loaded, menuAction, filesToProcess, invoked, exportFormat,
                   outsideOptimize>>

Reject ==
    /\ pc = "prompt"
    /\ progress' = markProcessed(progress, CurrentFile.path, CurrentFile.name, "rejected",
                                 <<>>, clock)
    /\ clock' = clock + 2
    /\ outcome' = "rejected"
    /\ Returned(TRUE)
    /\ UNCHANGED <<runCount, allFiles, loaded, menuAction, filesToProcess, invoked, exportFormat,
                   disk, outsideOptimize>>

\* the answer 'view': the comparison is displayed, then `continue`
View ==
    /\ pc = "prompt"
    /\ calls < MaxOptimizeCalls
    /\ shown' = <<[content |-> candidate[1], validation |-> validation, calls |-> calls]>>
    /\ pc' = "optimize"
    /\ UNCHANGED <<runCount, allFiles, loaded, menuAction, filesToProcess, fileIndex, invoked,
                   candidate, customPrompt, calls, validation, progress, clock, exportFormat,
                   disk, outcome, outsideOptimize>>

\* the answer 'edit': a custom prompt is asked for, then `continue`
Edit ==
    /\ pc = "prompt"
    /\ calls < MaxOptimizeCalls
    /\ customPrompt' = "custom"
    /\ shown' = <<>>
    /\ pc' = "optimize"
    /\ UNCHANGED <<runCount, allFiles, loaded, menuAction, filesToProcess, fileIndex, invoked,
                   candidate, calls, validation, progress, clock, exportFormat, disk, outcome,
                   outsideOptimize>>

\* the answer 'split': handleFileSplit, which catches its own errors; a call
\* that throws leaves the output folder as it was
HandleFileSplit ==
    /\ pc = "prompt"
    /\ \E answer \in {[topics |-> <<>>, confirmed |-> FALSE, throws |-> TRUE]}
                        \cup [topics : AnalyzedTopics, confirmed : BOOLEAN, throws : {FALSE}] :
         LET topicList == answer.topics
             result == saveSplitFiles(exportFormat, CurrentFile.path, topicList,
                                      ContentsOf(topicList), OutputFolder, disk)
         IN IF answer.throws
            THEN outcome' = "not split" /\ UNCHANGED <<progress, clock, disk>>
            ELSE IF Len(topicList) <= 1 \/ ~answer.confirmed
            THEN outcome' = "not split" /\ UNCHANGED <<progress, clock, disk>>
            ELSE IF result.error # "none"
            THEN outcome' = "not split" /\ UNCHANGED <<progress, clock, disk>>
            ELSE /\ disk' = result.files
                 /\ progress' = markProcessed(progress, CurrentFile.path, CurrentFile.name,
                                              "split", result.returned, clock)
                 /\ clock' = clock + 2
                 /\ outcome' = "split"
    /\ Returned(TRUE)
    /\ UNCHANGED <<runCount, allFiles, loaded, menuAction, filesToProcess, invoked, exportFormat,
                   outsideOptimize>>

\* any other answer: the operator cancelled
Cancel ==
    /\ pc = "prompt"
    /\ outcome' = "cancelled"
    /\ Returned(FALSE)
    /\ UNCHANGED <<runCount, allFiles, loaded, menuAction, filesToProcess, invoked, progress,
                   clock, exportFormat, disk, outsideOptimize>>

NextOptimize ==
    \/ StartRun
    \/ MenuView
    \/ MenuReset
    \/ MenuExit
    \/ MenuContinue
    \/ ExtractContent
    \/ ExtractContentFails
    \/ OptimizeContent
    \/ OptimizeContentFails
    \/ Approve
    \/ Reject
    \/ View
    \/ Edit
    \/ HandleFileSplit
    \/ Cancel

SpecOptimize == InitOptimize /\ [][NextOptimize]_vars

(* SpecSplit: the for loop of FileSplitter.processFiles splits the files of *)
(* an input folder one after the other; the optimizeContent calls of a     *)
(* batch settle in any order, each with a result or with an error          *)

\* the values of CONCURRENT_TOPIC_OPTIMIZATIONS the splitter is run with
ConcurrencyLimits == {1, 2}

\* the input folder as scanned: r.docx and r.pdf
SplitFolder ==
    <<CHOOSE f \in ScanFiles : f.path.ext = ".docx",
      CHOOSE f \in ScanFiles : f.path.ext = ".pdf">>

\* what analyzeTopics can return: up to three of the topics 'A b', 'a-b', '!'
SplitTopics ==
    LET Topic(n) == [topicName |-> n, description |-> <<"d">>]
        first == Topic(<<"A", " ", "b">>)
        second == Topic(<<"a", "-", "b">>)
        third == Topic(<<"!">>)
    IN {<<>>, <<first>>, <<first, third>>, <<first, second>>, <<first, third, second>>}

\* the call of optimizeContent made for a topic of a file, and the content it
\* returns when it succeeds
OptimizeCall(filePath, topicNum) == [file |-> filePath, topic |-> topicNum]

Optimized(filePath, topicNum) == [optimized |-> OptimizeCall(filePath, topicNum)]

\* the states of a promise of the batch
Pending == [state |-> "pending", value |-> <<>>]
Rejected == [state |-> "rejected", value |-> <<>>]
Fulfilled(value) == [state |-> "fulfilled", value |-> <<value>>]

\* the value of Promise.all(promises) when every promise is fulfilled, the
\* promises being those of the topics from + 1 on: their values in the order
\* of the promises, whenever each was fulfilled
PromiseAllInReverse(promises, from) ==
    LET count == Cardinality(DOMAIN promises)
    IN [j \in 1..count |-> promises[from + count + 1 - j].value[1]]

PromiseAll(promises, from) ==
    [j \in 1..Cardinality(DOMAIN promises) |-> promises[from + j].value[1]]

\* the variables of the other specifications
outsideSplit ==
    <<tableVars, docHtml, rewritten, writerVars, pair, attemptCount, readBack, lastSaved,
      validation, matchVars, runCount, allFiles, loaded, menuAction, invoked, candidate,
      customPrompt, calls, shown>>

InitSplit ==
    /\ pc = "loop"
    /\ filesToProcess = SplitFolder
    /\ fileIndex = 0
    /\ exportFormat \in RunFormats
    /\ concurrentTopicOptimizations \in ConcurrencyLimits
    /\ progress = FreshProgress
    /\ clock = 0
    /\ disk = <<>>
    /\ outcome = "none"
    /\ originalFilePath = <<>>
    /\ topics = <<>>
    /\ topicIndex = 0
    /\ batchPromises = <<>>
    /\ optimizedContents = <<>>
    /\ inFlight = {}
    /\ settled = <<>>
    /\ runCount = 0 /\ allFiles = <<>> /\ loaded = <<>> /\ menuAction = "none"
    /\ invoked = <<>> /\ candidate = <<>> /\ customPrompt = "null" /\ calls = 0 /\ shown = <<>>
    /\ validation = "none"
    /\ IdleVerify
    /\ IdleMatch
    /\ IdleExtractor
    /\ IdleInline
    /\ IdleMarkup

\* splitFile returned: the for loop goes on to the next file, or ends
SplitReturned(shouldContinue) ==
    IF shouldContinue /\ fileIndex + 1 < Len(filesToProcess)
    THEN pc' = "loop" /\ fileIndex' = fileIndex + 1
    ELSE pc' = "finished" /\ fileIndex' = fileIndex

\* the catch of splitFile: the error is shown and confirmContinue answers
SplitCaught ==
    /\ outcome' = "failed"
    /\ \E shouldContinue \in BOOLEAN : SplitReturned(shouldContinue)

\* markProcessed(file.path, file.name, action, outputFiles) of splitFile
SplitMarked(action, outputFiles) ==
    /\ progress' = markProcessed(progress, CurrentFile.path, CurrentFile.name, action,
                                 outputFiles, clock)
    /\ clock' = clock + 2
    /\ outcome' = action

\* extractContent or analyzeTopics throws
SplitFileFails ==
    /\ pc = "loop"
    /\ SplitCaught
    /\ UNCHANGED <<filesToProcess, exportFormat, progress, clock, disk, originalFilePath, topics,
                   splitVars, outsideSplit>>

\* the document is short and the operator does not have it analyzed
SplitSkipped ==
    /\ pc = "loop"
    /\ SplitMarked("skipped", <<>>)
    /\ SplitReturned(TRUE)
    /\ UNCHANGED <<filesToProcess, exportFormat, disk, originalFilePath, topics, splitVars,
                   outsideSplit>>

\* splitFile from analyzeTopics to the batch loop: a single topic or a
\* declined split is recorded, a confirmed split goes on
AnalyzeTopics ==
    /\ pc = "loop"
    /\ \E analyzed \in SplitTopics, answer \in BOOLEAN :
          /\ topics' = analyzed
          /\ originalFilePath' = CurrentFile.path
          /\ topicIndex' = 0
          /\ optimizedContents' = <<>>
          /\ batchPromises' = <<>>
          /\ settled' = <<>>
          /\ IF Len(analyzed) <= 1
             THEN SplitMarked("single-topic", <<>>) /\ SplitReturned(answer)
             ELSE IF ~answer
             THEN SplitMarked("rejected", <<>>) /\ SplitReturned(TRUE)
             ELSE /\ pc' = "batch"
                  /\ outcome' = "none"
                  /\ UNCHANGED <<fileIndex, progress, clock>>
    /\ UNCHANGED <<filesToProcess, exportFormat, disk, concurrentTopicOptimizations, inFlight,
                   outsideSplit>>

\* one turn of the batch loop up to the await: the calls of the batch are
\* all started
StartBatch ==
    /\ pc = "batch"
    /\ topicIndex < Len(topics)
    /\ LET batchSize == concurrentTopicOptimizations
           last == IF topicIndex + batchSize < Len(topics) THEN topicIndex + batchSize
                   ELSE Len(topics)
           batch == (topicIndex + 1)..last
       IN /\ batchPromises' = [k \in batch |-> Pending]
          /\ inFlight' = inFlight \cup {OptimizeCall(CurrentFile.path, k) : k \in batch}
    /\ pc' = "await"
    /\ UNCHANGED <<filesToProcess, fileIndex, exportFormat, progress, clock, disk, outcome,
                   originalFilePath, topics, concurrentTopicOptimizations, topicIndex,
                   optimizedContents, settled, outsideSplit>>

\* a call of optimizeContent returns or throws: its promise, if splitFile
\* still awaits it, is fulfilled or rejected
OptimizeContentSettles ==
    /\ \E call \in inFlight, fulfilled \in BOOLEAN :
          /\ inFlight' = inFlight \ {call}
          /\ IF pc = "await" /\ call.file = CurrentFile.path
             THEN /\ batchPromises' =
                        [batchPromises EXCEPT ![call.topic] =
                            IF fulfilled THEN Fulfilled(Optimized(call.file, call.topic))
                            ELSE Rejected]
                  /\ settled' = Append(settled, call.topic)
             ELSE UNCHANGED <<batchPromises, settled>>
    /\ UNCHANGED <<pc, filesToProcess, fileIndex, exportFormat, progress, clock, disk, outcome,
                   originalFilePath, topics, concurrentTopicOptimizations, topicIndex,
                   optimizedContents, outsideSplit>>

\* every promise of the batch is fulfilled: Promise.all resolves, the results
\* are pushed and the loop goes to the next batch
BatchResolved ==
    /\ pc = "await"
    /\ \A k \in DOMAIN batchPromises : batchPromises[k].state = "fulfilled"
    /\ optimizedContents' = optimizedContents \o PromiseAll(batchPromises, topicIndex)
    /\ topicIndex' = topicIndex + concurrentTopicOptimizations
    /\ batchPromises' = <<>>
    /\ pc' = "batch"
    /\ UNCHANGED <<filesToProcess, fileIndex, exportFormat, progress, clock, disk, outcome,
                   originalFilePath, topics, concurrentTopicOptimizations, inFlight, settled,
                   outsideSplit>>

\* a promise of the batch is rejected: Promise.all rejects at once, whatever
\* the other calls of the batch do, and the catch of splitFile runs
BatchRejected ==
    /\ pc = "await"
    /\ \E k \in DOMAIN batchPromises : batchPromises[k] = Rejected
    /\ SplitCaught
    /\ UNCHANGED <<filesToProcess, exportFormat, progress, clock, disk, originalFilePath, topics,
                   splitVars, outsideSplit>>

\* after the batch loop: the split files are saved and the split recorded, or
\* saveSplitFiles throws
SaveAndMarkSplit ==
    /\ pc = "batch"
    /\ topicIndex >= Len(topics)
    /\ LET result == saveSplitFiles(exportFormat, CurrentFile.path, topics, optimizedContents,
                                    OutputFolder, disk)
       IN IF result.error = "none"
          THEN /\ disk' = result.files
               /\ SplitMarked("split", result.returned)
               /\ SplitReturned(TRUE)
          ELSE /\ SplitCaught
               /\ UNCHANGED <<disk, progress, clock>>
    /\ UNCHANGED <<filesToProcess, exportFormat, originalFilePath, topics, splitVars,
                   outsideSplit>>

NextSplit ==
    \/ SplitFileFails
    \/ SplitSkipped
    \/ AnalyzeTopics
    \/ StartBatch
    \/ OptimizeContentSettles
    \/ BatchResolved
    \/ BatchRejected
    \/ SaveAndMarkSplit

SpecSplit == InitSplit /\ [][NextSplit]_vars

----------------------------------------------------------------------------
(* Properties of markTableSections *)

IsSentinel(e) == e \in {TABLE_START, TABLE_END}
NotSentinel(e) == ~IsSentinel(e)

\* C2: markTableSections never loses text: with the sentinel elements taken
\* out, the result holds exactly the input lines, in their order.
C2_NoTextLost ==
    pc = "marked" => SelectSeq(marked, NotSentinel) = SplitLines(text)

\* C5: sentinels come in matched pairs: every [TABLE START] is followed by a
\* [TABLE END] with no sentinel and at least 2 lines between them, and every
\* [TABLE END] closes such a [TABLE START]; so a discarded candidate leaves
\* no sentinel behind.
C5_SentinelsPaired ==
    pc = "marked" =>
        /\ \A i \in 1..Len(marked) : marked[i] = TABLE_START =>
              \E j \in (i + 1)..Len(marked) :
                  /\ marked[j] = TABLE_END
                  /\ \A k \in (i + 1)..(j - 1) : NotSentinel(marked[k])
                  /\ j - i - 1 >= 2
        /\ \A j \in 1..Len(marked) : marked[j] = TABLE_END =>
              \E i \in 1..(j - 1) :
                  /\ marked[i] = TABLE_START
                  /\ \A k \in (i + 1)..(j - 1) : NotSentinel(marked[k])

----------------------------------------------------------------------------
(* Properties of the line classification *)

\* fields obtained by splitting on runs of 3 or more space characters
SpaceFields(l) == SplitRuns3(l, {" "})

\* the classification as the specification words it
StatedTabular(l) ==
    \/ CountChar(l, "\t") >= 2
    \/ CountChar(l, "|") >= 2
    \/ Cardinality({k \in 1..Len(SpaceFields(l)) : SpaceFields(l)[k] # <<>>}) >= 3

\* C3: in both detectors a line is tabular if and only if it has 2 tabs or
\* more, or 2 pipes or more, or 3 or more non-empty fields between runs of 3
\* or more spaces.  The rule is read on the line as it is or on the line
\* without its leading and trailing whitespace, whichever agrees.
C3_TabularIffStated ==
    pc = "classified" =>
        /\ lineClass.detect \in {StatedTabular(line), StatedTabular(Trim(line))}
        /\ lineClass.mark \in {StatedTabular(line), StatedTabular(Trim(line))}

----------------------------------------------------------------------------
(* Properties of detectTextTables *)

\* runs of the input, told from the lines alone (positions are 1-based here)
TabularAt(ls, i) == DetectLineIsTabular(ls[i])
ProseAt(ls, i) == ~TabularAt(ls, i) /\ Trim(ls[i]) # <<>>

\* a run starts at a tabular line that no earlier tabular line reaches
\* without crossing a prose line
RunStarts(ls) ==
    {i \in 1..Len(ls) :
        /\ TabularAt(ls, i)
        /\ \A j \in 1..(i - 1) : TabularAt(ls, j) => \E k \in (j + 1)..(i - 1) : ProseAt(ls, k)}

\* the tabular lines of the run that starts at s
RunLines(ls, s) ==
    {t \in s..Len(ls) : TabularAt(ls, t) /\ \A k \in s..t : ~ProseAt(ls, k)}

\* runs of 2 tabular lines or more
TableRuns(ls) == {s \in RunStarts(ls) : Cardinality(RunLines(ls, s)) >= 2}

\* the k-th element of a finite set of numbers, in increasing order
Kth(S, k) == CHOOSE x \in S : Cardinality({y \in S : y < x}) = k - 1
MaxOf(S) == CHOOSE x \in S : \A y \in S : y <= x

\* C4: detectTextTables returns one region per run of 2 or more tabular
\* lines (blank lines allowed inside the run) and none for a run of a single
\* tabular line; the regions hold the run's tabular lines and come in source
\* order.
C4_RegionsAreRuns ==
    pc = "detected" =>
        LET ls == SplitLines(text)
            runs == TableRuns(ls)
        IN
        /\ Len(tablePatterns) = Cardinality(runs)
        /\ \A k \in 1..Len(tablePatterns) :
              LET members == RunLines(ls, Kth(runs, k))
                  c == SplitLines(tablePatterns[k].content)
              IN
              /\ Len(c) >= 2
              /\ Len(c) = Cardinality(members)
              /\ \A m \in 1..Len(c) : c[m] = Trim(ls[Kth(members, m)]) /\ TableLike(c[m])
        /\ \A k \in 1..(Len(tablePatterns) - 1) :
              tablePatterns[k].startLine < tablePatterns[k + 1].startLine

\* C4 witness: a region whose run holds a blank line was returned, and a
\* single tabular line at the end of the input was not.
C4_Witness ==
    /\ pc = "detected"
    /\ LET ls == SplitLines(text) IN
       /\ Len(tablePatterns) = 1
       /\ \E s \in TableRuns(ls) : \E b \in s..MaxOf(RunLines(ls, s)) : Trim(ls[b]) = <<>>
       /\ Len(ls) \in RunStarts(ls) \ TableRuns(ls)

\* C6: startLine and endLine of a region are the zero-based indices of the
\* first and of the last tabular line of its run, inside the input, and
\* regions do not overlap.
C6_SourceRange ==
    pc = "detected" =>
        LET ls == SplitLines(text)
            runs == TableRuns(ls)
        IN
        /\ \A k \in 1..Len(tablePatterns) :
              LET r == tablePatterns[k] IN
              /\ k <= Cardinality(runs) =>
                    /\ r.startLine = Kth(runs, k) - 1
                    /\ r.endLine = MaxOf(RunLines(ls, Kth(runs, k))) - 1
              /\ 0 <= r.startLine /\ r.startLine <= r.endLine /\ r.endLine < Len(ls)
        /\ \A k \in 1..(Len(tablePatterns) - 1) :
              tablePatterns[k].endLine < tablePatterns[k + 1].startLine

----------------------------------------------------------------------------
(* Properties of convertTableToList *)

\* s holds sub as a contiguous piece
Contains(s, sub) ==
    \E i \in 1..(Len(s) - Len(sub) + 1) : SubSeq(s, i, i + Len(sub) - 1) = sub

\* number of places of s where sub stands
Occurrences(s, sub) ==
    Cardinality({i \in 1..(Len(s) - Len(sub) + 1) : SubSeq(s, i, i + Len(sub) - 1) = sub})

\* the numbered items of a list text, in order
IsNumbered(l) == l # <<>> /\ l[1] \in {Digits[d] : d \in 1..10}
ItemLines(t) == SelectSeq(SplitLines(t), IsNumbered)

\* the rows after the header row, if one was inferred
DataRows == IF hasHeader THEN Tail(tableRows) ELSE tableRows

NonEmptyCells(row) == SelectSeq(row, NonBlank)
HasNonEmptyCell(row) == NonEmptyCells(row) # <<>>

\* C1: neither detector finds a table in the list text convertTableToList
\* returned: detectTextTables returns no region and markTableSections emits
\* no sentinel.
C1_ListIsNotRedetected ==
    /\ pc = "redetected" => tablePatterns = <<>>
    /\ pc = "remarked" => \A i \in 1..Len(marked) : NotSentinel(marked[i])

\* C7: every non-empty cell parsed from the table stands, whole, in the text
\* convertTableToList returned.
C7_Lossless ==
    pc = "converted" =>
        \A r \in 1..Len(tableRows) : \A c \in 1..Len(tableRows[r]) :
            tableRows[r][c] # <<>> => Contains(listText, tableRows[r][c])

\* C8: an empty cell adds nothing to its item and a data row of empty cells
\* gives no item: the items are those of the data rows that have a non-empty
\* cell, each with as many ' | '-joined entries as its row has non-empty cells.
C8_EmptyCellsDropped ==
    pc = "converted" =>
        LET kept == SelectSeq(DataRows, HasNonEmptyCell)
            items == ItemLines(listText)
        IN
        /\ Len(items) = Len(kept)
        /\ \A k \in 1..Len(items) : k <= Len(kept) =>
              Occurrences(items[k], <<" ", "|", " ">>) + 1 = Len(NonEmptyCells(kept[k]))

\* number of characters of all the cells of a row
CellChars(row) == Cardinality({p \in (1..Len(row)) \X (1..50) : p[2] <= Len(row[p[1]])})

\* the header rule as the specification words it; the averages
\* CellChars / Len are compared after multiplying both sides by
\* 10 * Len(rs[1]) * Len(rs[2])
StatedHeader(rs) ==
    \/ /\ Len(rs) >= 2
       /\ 10 * CellChars(rs[1]) * Len(rs[2]) < 7 * CellChars(rs[2]) * Len(rs[1])
    \/ \A c \in 1..Len(rs[1]) :
          /\ Len(rs[1][c]) < 50
          /\ \A last \in {".", "!", "?"} : rs[1][c] = <<>> \/ rs[1][c][Len(rs[1][c])] # last

\* C9: no parsed row is without cells, and the header flag is true exactly
\* when row 0 is on average under 70% of row 1 in cell length, or every cell
\* of row 0 is under 50 characters and does not end in '.', '!' or '?'.
C9_HeaderInference ==
    pc = "converted" =>
        /\ \A r \in 1..Len(tableRows) : Len(tableRows[r]) > 0
        /\ tableRows # <<>> => (hasHeader <=> StatedHeader(tableRows))

\* C9 witness: the 70% rule alone made row 0 the header (one of its cells
\* ends in '.'), and a <tr> without cells was dropped by the parse.
C9_Witness ==
    /\ pc = "converted"
    /\ hasHeader
    /\ Len(tableRows) >= 2
    /\ \E c \in 1..Len(tableRows[1]) : ~LooksLikeHeaderCell(tableRows[1][c])
    /\ Contains(tableHtml, <<"<tr>", "</tr>">>)

\* the k-th item (1-based) of a table with a header, for a given labelling
StatedItem(k, row, Label(_)) ==
    (NumStr(k) \o <<".", " ">>)
        \o Join([c \in 1..Len(row) |-> (Label(c) \o <<":", " ">>) \o row[c]], <<" ", "|", " ">>)

ColumnLabel(c) == <<"C", "o", "l", "u", "m", "n", " ">> \o NumStr(c)

\* C10 as claimed: with a header, the k-th data row is item k, its cells
\* labelled by the header cell of the same column whenever the header row
\* has a cell there, and by `Column <n>` otherwise.
C10_LabelIsHeaderCell ==
    pc = "converted" /\ hasHeader =>
        LET headerRow == tableRows[1]
            items == ItemLines(listText)
            Label(c) == IF c <= Len(headerRow) THEN headerRow[c] ELSE ColumnLabel(c)
        IN
        /\ Len(items) = Len(DataRows)
        /\ \A k \in 1..Len(items) : items[k] = StatedItem(k, DataRows[k], Label)

\* C10 amended: with a header, the k-th data row is item k, its cells
\* labelled by the header cell of the same column whenever the header row
\* has a non-empty cell there, and by `Column <n>` otherwise.
C10_LabelIsNonEmptyHeaderCell ==
    pc = "converted" /\ hasHeader =>
        LET headerRow == tableRows[1]
            items == ItemLines(listText)
            Label(c) == IF c <= Len(headerRow) /\ headerRow[c] # <<>>
                        THEN headerRow[c] ELSE ColumnLabel(c)
        IN
        /\ Len(items) = Len(DataRows)
        /\ \A k \in 1..Len(items) : items[k] = StatedItem(k, DataRows[k], Label)

\* C10 witness: a header and two data rows, one of them longer than the
\* header row, were rendered.
C10_Witness ==
    /\ pc = "converted"
    /\ hasHeader
    /\ Len(tableRows) = 3
    /\ Len(ItemLines(listText)) = 2
    /\ \E k \in 2..3 : Len(tableRows[k]) > Len(tableRows[1])
    /\ \E c \in 1..Len(tableRows[1]) : tableRows[1][c] # <<>>

----------------------------------------------------------------------------
(* Properties of convertAllTables *)

\* the document with every table from pos on replaced, where it stands, by
\* the list convertTableToList returns for it
RECURSIVE RewrittenInPlace(_, _)
RewrittenInPlace(html, pos) ==
    LET open == FirstIn(html, pos, TableOpenTags)
        close == IF open = 0 THEN 0 ELSE FirstIn(html, open + 1, TableCloseTags)
    IN IF close = 0 THEN SubSeq(html, pos, Len(html))
       ELSE (SubSeq(html, pos, open - 1) \o convertTableToList(SubSeq(html, open, close)))
                \o RewrittenInPlace(html, close + 1)

\* C11: convertAllTables returns the document with each table replaced, at
\* its position, by exactly the text convertTableToList returns for it, and
\* with the text outside the tables unchanged, whatever the cells contain
C11_TablesRewrittenInPlace ==
    pc = "rewritten" => rewritten = RewrittenInPlace(docHtml, 1)

----------------------------------------------------------------------------
(* Properties of parseInlineFormatting *)

BoldItalic(str) == TextRun(str, TRUE, TRUE)
Bold(str) == TextRun(str, TRUE, FALSE)
Italic(str) == TextRun(str, FALSE, TRUE)
Plain(str) == TextRun(str, FALSE, FALSE)

\* the text of a sequence of spans
TextOf(spans) == Concat([i \in 1..Len(spans) |-> spans[i].text])

\* the delimiter characters a span of that style stood between
DelimitersOf(span) ==
    IF span.bold /\ span.italics THEN 6 ELSE IF span.bold THEN 4 ELSE IF span.italics THEN 2 ELSE 0

RECURSIVE SumDelimiters(_)
SumDelimiters(spans) ==
    IF spans = <<>> THEN 0 ELSE DelimitersOf(Head(spans)) + SumDelimiters(Tail(spans))

NotDelimiter(c) == c \notin {"*", BackTick}

\* the text is a pair of triple asterisks around a non-empty x without
\* asterisks and backticks
TripleAround(str) ==
    /\ Len(str) >= 7
    /\ SubSeq(str, 1, 3) = <<"*", "*", "*">>
    /\ SubSeq(str, Len(str) - 2, Len(str)) = <<"*", "*", "*">>
    /\ \A i \in 4..(Len(str) - 3) : NotDelimiter(str[i])

\* the spans hold the text less the delimiters of the matches: the other
\* characters stand as they stood, each emphasised span took away its pair of
\* delimiters, and the backticks went in pairs
DelimitersRemoved(str, spans) ==
    /\ SelectSeq(TextOf(spans), NotDelimiter) = SelectSeq(str, NotDelimiter)
    /\ CountChar(str, "*") - CountChar(TextOf(spans), "*") = SumDelimiters(spans)
    /\ (CountChar(str, BackTick) - CountChar(TextOf(spans), BackTick)) % 2 = 0
    /\ CountChar(str, BackTick) >= CountChar(TextOf(spans), BackTick)

InlinePrecedence ==
    /\ TripleAround(inlineText)
          => inlineRuns = <<BoldItalic(SubSeq(inlineText, 4, Len(inlineText) - 3))>>
    /\ inlineText = InlineExample
          => inlineRuns = <<BoldItalic(<<"a">>), Plain(<<" ", "a", "n", "d", " ">>), Italic(<<"b">>),
                      Plain(<<" ", "a", "n", "d", " ">>), Bold(<<"c">>)>>
    /\ DelimitersRemoved(inlineText, inlineRuns)

\* C14: ***x*** gives the one bold and italic span x, the example of the
\* specification gives its five spans, no span returned has an empty text, and
\* the texts of the spans are the input less the matched delimiters
C14_InlinePrecedence ==
    pc = "parsed" => InlinePrecedence /\ \A i \in 1..Len(inlineRuns) : inlineRuns[i].text # <<>>

\* C14 as the code has it: a span with an empty text is returned for the empty
\* text, and only for it
C14_InlinePrecedenceNonEmpty ==
    pc = "parsed" =>
        /\ InlinePrecedence
        /\ inlineText # <<>> => \A i \in 1..Len(inlineRuns) : inlineRuns[i].text # <<>>
        /\ inlineText = <<>> => inlineRuns = <<Plain(<<>>)>>

C14_Witness ==
    /\ pc = "parsed"
    /\ inlineText = InlineExample
    /\ Len(inlineRuns) = 5

----------------------------------------------------------------------------
(* Properties of markdownToWordParagraphs *)

SolelyOf(l, c) == Len(l) >= 3 /\ CountChar(l, c) = Len(l)

\* the line starts with digits, a dot and a whitespace character, n characters
\* in all
NumericPrefix(l, n) ==
    /\ n >= 3 /\ n <= Len(l)
    /\ \A i \in 1..(n - 2) : l[i] \in DigitChars
    /\ l[n - 1] = "."
    /\ IsSpace(l[n])

\* the classification of a line in the order of the specification
StatedParagraph(l) ==
    LET hashes == RunLen(l, 1, {"#"})
        Rest(n) == parseInlineFormatting(SubSeq(l, n + 1, Len(l)))
    IN IF hashes \in 1..6 /\ Len(l) > hashes /\ l[hashes + 1] = " "
       THEN [kind |-> "heading", heading |-> hashes, children |-> Rest(hashes + 1)]
       ELSE IF SolelyOf(l, "-") \/ SolelyOf(l, "*") \/ SolelyOf(l, "_")
       THEN [kind |-> "rule", heading |-> 0, children |-> RuleText]
       ELSE IF Len(l) >= 2 /\ l[1] = ">" /\ l[2] = " "
       THEN [kind |-> "quote", heading |-> 0, children |-> Rest(2)]
       ELSE IF Len(l) >= 2 /\ l[1] \in {"-", "*"} /\ l[2] = " "
       THEN [kind |-> "bullet", heading |-> 0, children |-> Rest(2)]
       ELSE IF \E n \in 1..Len(l) : NumericPrefix(l, n)
       THEN [kind |-> "numbering", heading |-> 0,
             children |-> Rest(CHOOSE n \in 1..Len(l) : NumericPrefix(l, n))]
       ELSE IF \A i \in 1..Len(l) : IsSpace(l[i])
       THEN [kind |-> "empty", heading |-> 0, children |-> <<>>]
       ELSE [kind |-> "paragraph", heading |-> 0, children |-> parseInlineFormatting(l)]

----------------------------------------------------------------------------
(* Properties of saveAsText *)

\* what saveAsText puts before the plain text
TextHeader == ((SummaryBanner \o summary) \o <<"\n">>) \o (Chars(80, "=") \o <<"\n", "\n">>)

\* the lines of the plain text in the file written
PlainLines == SplitLines(SubSeq(written, Len(TextHeader) + 1, Len(written)))

\* the line of the plain text holds the text of the paragraph, with or
\* without the marker plain text keeps for a paragraph of its kind
SameInlineText(paragraph, plainLine, markupLine) ==
    LET content == TextOf(paragraph.children)
        number == SubSeq(markupLine, 1, NumberPrefixLen(markupLine))
    IN CASE paragraph.kind = "empty" -> Trim(plainLine) = <<>>
         [] paragraph.kind = "rule" -> TRUE
         [] paragraph.kind = "quote" -> plainLine \in {content, <<">", " ">> \o content}
         [] paragraph.kind = "bullet" -> plainLine \in {content, <<"-", " ">> \o content}
         [] paragraph.kind = "numbering" -> plainLine \in {content, number \o content}
         [] OTHER -> plainLine = content

\* C15: the plain text and the paragraphs of the Word document hold the same
\* blocks in the same order, each with the same inline text
C15_SameBlocksSameText ==
    pc = "saved" =>
        /\ Len(PlainLines) = Len(wordParagraphs)
        /\ \A i \in 1..Len(wordParagraphs) :
              i <= Len(PlainLines) =>
                  SameInlineText(wordParagraphs[i], PlainLines[i], SplitLines(markup)[i])

\* the line of the plain text is the line of the markdown with its marker
\* stripped: the text alone for a heading, a quote and a paragraph, the text
\* after '- ' for a bullet
MarkerStripped(paragraph, plainLine) ==
    LET content == TextOf(paragraph.children)
    IN CASE paragraph.kind \in {"heading", "quote", "paragraph"} -> plainLine = content
         [] paragraph.kind = "bullet" -> plainLine = <<"-", " ">> \o content
         [] OTHER -> TRUE

\* C17: the file starts with 'SUMMARY: <summary>', a line of 80 characters
\* and an empty line, and in the plain text after them headings and quotes
\* stand without their markers, bullets start with '- ', and the delimiters of
\* emphasis and code are gone
C17_MarkersStripped ==
    pc = "saved" =>
        /\ SubSeq(written, 1, Len(TextHeader)) = TextHeader
        /\ Len(PlainLines) = Len(wordParagraphs)
        /\ \A i \in 1..Len(wordParagraphs) :
              i <= Len(PlainLines) => MarkerStripped(wordParagraphs[i], PlainLines[i])

----------------------------------------------------------------------------
(* Properties of saveAsMarkdown and cleanOptimizedContent *)

\* C16: cleaning the file saveAsMarkdown wrote gives back the markdown it was
\* given, whatever the markdown and the summary
C16_RoundTrip ==
    pc = "cleaned" => cleaned = markup

----------------------------------------------------------------------------
(* Properties of saveOptimizedContent and saveSplitFiles *)

\* C18: with an export format other than 'original', 'txt', 'md' and 'docx'
\* both operations end with an error and write no file, whatever the topics;
\* with one of the four neither ends with a format error
C18_UnsupportedFormatIsFatal ==
    pc \in {"saveOptimizedContent", "saveSplitFiles"} =>
        IF exportFormat \in {"original", "txt", "md", "docx"}
        THEN outcome.error = "none"
        ELSE outcome.error # "none" /\ disk = <<>>

\* C20: the paths saveSplitFiles returns are the files it wrote, one for each
\* topic, each in the subfolder of the output folder named after the original
\* document and named after its sanitized topic name with the extension of
\* the format
C20_SplitFilesInSubfolder ==
    (pc = "saveSplitFiles" /\ outcome.error = "none") =>
        /\ Len(outcome.returned) = Len(topics)
        /\ DOMAIN disk = {outcome.returned[i] : i \in 1..Len(topics)}
        /\ Cardinality(DOMAIN disk) = Len(topics)
        /\ \A i \in 1..Len(topics) :
              /\ outcome.returned[i].dir = OutputFolder \o <<originalFilePath.base>>
              /\ outcome.returned[i].name =
                     sanitizeFilename(topics[i].topicName)
                         \o <<"." \o OutputFormat(exportFormat, originalFilePath)>>

----------------------------------------------------------------------------
(* Properties of verifyFilePair *)

\* C19: once reOptimizeFile has reported success, the attempt that follows
\* reads the file it saved, with the content it saved
C19_ReverifyReadsSaved ==
    (pc = "validated" /\ lastSaved # <<>>) => lastSaved[1] \in readBack

----------------------------------------------------------------------------
(* Properties of saveAsText and cleanOptimizedContent *)

\* C30: cleaning the file saveAsText wrote gives back the body saveAsText put
\* under the header, whatever the body and the summary
C30_TextHeaderRemovedExactly ==
    pc = "cleaned" => cleaned = PlainTextOf(markup)

----------------------------------------------------------------------------
(* Properties of the ProgressTracker *)

\* the number of records of processedFiles with an action
RecordsWith(action) ==
    Cardinality({i \in DOMAIN progress.processedFiles :
                    progress.processedFiles[i].action = action})

\* C22: each statistic is the number of records with its action
C22_StatsCountRecords ==
    pc = "tracker" =>
        /\ \A action \in Actions : progress.stats[action] = RecordsWith(action)
        /\ progress.stats.approved + progress.stats.rejected + progress.stats.split
                <= progress.totalProcessed

\* C26: totalProcessed is the number of records, the records have different
\* paths, isProcessed tells the paths with a record, no statistic is negative
C26_TrackerInvariant ==
    pc = "tracker" =>
        /\ progress.totalProcessed = Len(progress.processedFiles)
        /\ \A i, j \in DOMAIN progress.processedFiles :
                progress.processedFiles[i].path = progress.processedFiles[j].path => i = j
        /\ \A file \in ScanFiles :
                isProcessed(progress, file.path)
                    <=> file.path \in {progress.processedFiles[i].path :
                                            i \in DOMAIN progress.processedFiles}
        /\ \A action \in Actions : progress.stats[action] >= 0

\* a path was marked again after its first record, and a path was unmarked
C26_Witness ==
    /\ pc = "tracker"
    /\ Len(progress.processedFiles) = 1
    /\ progress.processedFiles[1].processedAt > 3
    /\ progress.stats.approved + progress.stats.rejected + progress.stats.split > 2

----------------------------------------------------------------------------
(* Properties of the retry loop of verifyFilePair *)

\* what verifyFilePair returned agrees with the checks made: 'passed' with one
\* accurate check, 're-optimized' with an accurate check after the first,
\* 'skipped' with a check that was not accurate
ReturnsAsChecked ==
    pc = "done" =>
        /\ outcome = "passed" => (attemptCount = 1 /\ validation = TRUE)
        /\ outcome = "re-optimized" => (attemptCount > 1 /\ validation = TRUE)
        /\ outcome = "skipped" => validation = FALSE

\* a re-optimization was saved and no attempt is left to verify it
SavedUnverified == pc = "verify" /\ attemptCount >= maxAttempts

\* C24: every saved re-optimization is verified again, the loop ends, and the
\* value returned agrees with the checks made
C24_RetryUntilPassOrSkip ==
    /\ [](ReturnsAsChecked /\ ~SavedUnverified)
    /\ <>(pc = "done")

----------------------------------------------------------------------------
(* Properties of the matching of verify mode *)

\* the files of a folder and of the folders in it, by relative path
RECURSIVE FilesIn(_, _)
FilesIn(entries, rel) ==
    UNION {IF entries[i].kind = "file"
           THEN {[dir |-> rel, name |-> entries[i].name]}
           ELSE FilesIn(entries[i].entries, Append(rel, Segment(entries[i].name))) :
           i \in DOMAIN entries}

\* the raw documents: the files .docx, .pdf, .txt, .md that are not temporary
RawDocuments ==
    {f \in FilesIn(rawTree, <<>>) :
        ~HiddenOrTemp(f.name) /\ ToLowerCase(ExtName(f.name)) \in RawExtensions}

\* the optimized file o is the one of the raw document r
OptimizedOf(r, o) ==
    /\ o.dir = r.dir
    /\ \E e \in OptimizedExtensions :
            o.name = (SubSeq(r.name, 1, Len(r.name) - 1) \o <<"_optimized">>) \o <<e>>

\* C21: a raw document and its optimized file in the same relative folder
\* are matched as a pair that is not a split, and a folder is matched as a
\* split only with a raw document of its name in its folder
C21_NestedFoldersMatched ==
    pc = "matched" =>
        /\ \A r \in RawDocuments, o \in FilesIn(optimizedTree, <<>>) :
                OptimizedOf(r, o) =>
                    \E i \in DOMAIN matches :
                        /\ matches[i].rawFile.path = PathJoin(RawFolder \o r.dir, r.name)
                        /\ matches[i].optimizedItem.path = PathJoin(OutputFolder \o o.dir, o.name)
                        /\ ~matches[i].isSplit
        /\ \A i \in DOMAIN matches :
                matches[i].isSplit =>
                    \E r \in RawDocuments :
                        /\ r.dir = matches[i].optimizedItem.relativePath.dir
                        /\ SubSeq(r.name, 1, Len(r.name) - 1) = matches[i].optimizedItem.name

----------------------------------------------------------------------------
(* Properties of optimize mode *)

\* the scanned files without a record in the progress the run loaded
Unrecorded ==
    LET NoRecord(file) ==
            \A i \in DOMAIN loaded.processedFiles : loaded.processedFiles[i].path # file.path
    IN SelectSeq(allFiles, NoRecord)

\* the answer 'view' returns to the menu and no file is processed
ViewReturnsToMenu == menuAction = "view" => (pc = "menu" /\ invoked = <<>>)

\* C23: after 'continue' processFile is called for the scanned files without
\* a record, all of them and in scan order, and 'view' returns to the menu
C23_ResumeSkipsProcessed ==
    /\ (menuAction = "continue" /\ pc = "finished") => invoked = Unrecorded
    /\ ViewReturnsToMenu

\* C23, the operator being free to stop the run: after 'continue' the files
\* processFile was called for are the first of the scanned files without a
\* record, in scan order, and all of them when the run ended otherwise than by
\* a cancel or an error; 'view' returns to the menu
C23_ResumeSkipsProcessedUntilStopped ==
    /\ menuAction = "continue" =>
            /\ Len(invoked) <= Len(Unrecorded)
            /\ invoked = SubSeq(Unrecorded, 1, Len(invoked))
            /\ (pc = "finished" /\ outcome \notin {"cancelled", "failed"})
                    => invoked = Unrecorded
    /\ ViewReturnsToMenu

\* a second run skipped the first file, processed the other two and ended
C23_Witness ==
    /\ menuAction = "continue"
    /\ pc = "finished"
    /\ outcome = "approved"
    /\ invoked = <<allFiles[2], allFiles[3]>>

\* the files of the records 'approved' and 'split' are in the output folder
RecordedFilesSaved ==
    pc \in {"start", "menu", "loop", "optimize", "prompt", "finished"} =>
        \A i \in DOMAIN progress.processedFiles :
            LET record == progress.processedFiles[i]
            IN /\ record.action = "approved" => Len(record.outputFiles) = 1
               /\ record.action = "split" => Len(record.outputFiles) > 1
               /\ \A k \in DOMAIN record.outputFiles : record.outputFiles[k] \in DOMAIN disk

\* after 'continue' every scanned file without a record is to be processed
UnrecordedOffered ==
    (menuAction = "continue" /\ pc = "loop" /\ invoked = <<>>) =>
        \A i \in DOMAIN allFiles :
            (\A k \in DOMAIN progress.processedFiles :
                    progress.processedFiles[k].path # allFiles[i].path)
                => \E j \in DOMAIN filesToProcess : filesToProcess[j] = allFiles[i]

\* a call of processFile that fails, is cancelled or does not split leaves the
\* progress as it was, and one that approves records the path at which the
\* approved content was saved
RecordFollowsSave ==
    pc \in {"loop", "optimize", "prompt"} =>
        /\ outcome' \in {"failed", "cancelled", "not split"}
                => progress' = progress
        /\ outcome' = "approved" =>
                LET record == progress'.processedFiles[Len(progress'.processedFiles)]
                IN /\ record.path = CurrentFile.path
                   /\ record.outputFiles[1] \in DOMAIN disk'
                   /\ disk'[record.outputFiles[1]].content = candidate[1]

\* C27: a record 'approved' or 'split' is made only once the files are saved,
\* a failed call leaves the progress unchanged, and the file is offered again
C27_RecordOnlyAfterSave ==
    /\ [](RecordedFilesSaved /\ UnrecordedOffered)
    /\ [][RecordFollowsSave]_vars

\* the first file was split and recorded, the save of the second one failed
C27_Witness ==
    /\ pc = "finished"
    /\ outcome = "failed"
    /\ Len(invoked) = 2
    /\ Len(progress.processedFiles) = 1
    /\ progress.processedFiles[1].action = "split"
    /\ calls = 0

\* C28: the candidate offered after a comparison is the one that was compared,
\* and no optimizeContent call was made for it
C28_ViewKeepsCandidate ==
    (pc = "prompt" /\ shown # <<>>) =>
        /\ candidate[1] = shown[1].content
        /\ validation = shown[1].validation
        /\ calls = shown[1].calls

----------------------------------------------------------------------------
(* Properties of the batch loop of splitFile *)

\* splitFile is in its batch loop, or just past it
OptimizingTopics == pc \in {"batch", "await"}

InFlightWithinLimit ==
    OptimizingTopics => Cardinality(inFlight) <= concurrentTopicOptimizations

BatchStartsAfterPrevious == (pc = "batch" /\ pc' = "await") => inFlight = {}

SavedAfterAllBatches ==
    (OptimizingTopics /\ (disk' # disk \/ progress' # progress))
        => (pc = "batch" /\ topicIndex >= Len(topics))

\* C25: while splitFile optimizes the topics of a document, at most
\* concurrentTopicOptimizations calls of optimizeContent are in flight; a
\* batch starts only when no call started before it is still in flight; and
\* nothing is saved or recorded before the batch loop has ended
C25_ConcurrencyLimit ==
    [](InFlightWithinLimit) /\ [][BatchStartsAfterPrevious /\ SavedAfterAllBatches]_vars

\* the paths saveSplitFiles returned for the document, as recorded
SavedSplitFiles == getFileRecord(progress, originalFilePath)[1].outputFiles

\* the file name saveSplitFiles gives the file of a topic
SplitFileName(topic) ==
    ((originalFilePath.base \o <<"_">>) \o sanitizeFilename(topic.topicName))
        \o <<"." \o OutputFormat(exportFormat, originalFilePath)>>

PairedAfterLoop ==
    (pc = "batch" /\ topicIndex >= Len(topics))
        => /\ Len(optimizedContents) = Len(topics)
           /\ \A k \in 1..Len(topics) : optimizedContents[k] = Optimized(originalFilePath, k)

\* each topic was written under its own name with its own content: the file
\* of that name holds the content and the description of the topic, or of a
\* later topic that was written under the same name
OwnContentSaved ==
    outcome = "split"
        => /\ Len(SavedSplitFiles) = Len(topics)
           /\ \A k \in 1..Len(topics) :
                 LET sameName == {j \in k..Len(topics) : SavedSplitFiles[j] = SavedSplitFiles[k]}
                     last == CHOOSE j \in sameName : \A other \in sameName : other <= j
                 IN /\ SavedSplitFiles[k].name = SplitFileName(topics[k])
                    /\ SavedSplitFiles[k] \in DOMAIN disk
                    /\ disk[SavedSplitFiles[k]].content = Optimized(originalFilePath, last)
                    /\ disk[SavedSplitFiles[k]].summary = topics[last].description

FailedBatchWritesNothing ==
    (\E k \in DOMAIN batchPromises : batchPromises[k] = Rejected) => disk' = disk

\* C29: whatever order the calls of a batch settle in, after the batch loop
\* optimizedContents has one entry per topic, the k-th being the result for
\* the k-th topic, and saveSplitFiles writes each topic's content under that
\* topic's name; once a call of a batch has failed, no split file is written
C29_ResultsPairedWithTopics ==
    [](PairedAfterLoop /\ OwnContentSaved) /\ [][FailedBatchWritesNothing]_vars

\* three topics were split two at a time, the second call of the first batch
\* returned before the first, and the files were saved
C29_Witness ==
    /\ outcome = "split"
    /\ concurrentTopicOptimizations = 2
    /\ settled = <<2, 1, 3>>
    /\ Len(topics) = 3
    /\ disk[SavedSplitFiles[2]].content = Optimized(originalFilePath, 2)

====
